---- MODULE Spec2Model ----
(***************************************************************************)
(* Model of the KR AI VIDEO CONVERTER pipeline: the translation stage      *)
(* (backend/translation_handler.py) as a step machine, and the Streamlit   *)
(* session of app.py (step record, caches, page buttons) around it.        *)
(*                                                                         *)
(* Segment objects live in `heap`: a subtitle set is a list of segment     *)
(* objects, and every list that app.py or translate_subtitles builds from  *)
(* it holds references to those same objects, never copies.  A reference   *)
(* is the index of the set in `heap`.                                      *)
(*                                                                         *)
(* The model follows the button handlers of app.py.  What a page draws     *)
(* between the handlers (tables, download buttons, audio players) is not   *)
(* modelled, so a page is assumed to be drawn completely.  In particular   *)
(* the download button of show_extract_page (app.py:305-310) reads         *)
(* subtitles.file_path, a field that schemas.SubtitleFile does not         *)
(* declare, and the preview of show_translate_page (app.py:615) slices     *)
(* translated_text even when it is None; neither read is represented, so   *)
(* the model allows every button press the program allows, and more.       *)
(*                                                                         *)
(* The time and file functions (utils/time_converter.py and the parsers    *)
(* and the writer of backend/subtitle_handler.py) are run on their own in  *)
(* SpecUnits, on strings kept as sequences of characters and on file       *)
(* contents kept as sequences of lines.  SpecExtract follows one press of  *)
(* the extract button through extract_subtitles and the whisper service.   *)
(*                                                                         *)
(* SpecTts is one process calling generate_tts_audio again and again, the  *)
(* calls one after another, with the module globals of tts_handler.py and  *)
(* the roster file.  SpecUpload is the session on its upload page, with    *)
(* the trim and cancel buttons; Spec itself leaves the two buttons out,    *)
(* they write the trim fields of video_info and nothing else.              *)
(***************************************************************************)
EXTENDS Integers, Sequences, FiniteSets, TLC

\* ------------------------------------------------------------------ bounds
MaxSegs == 25          \* longest segment list handed to translate_subtitles
MaxStride == 2         \* segment ids are stride, 2*stride, ... (gaps allowed)
MaxOps == 5            \* uploads, parses and stage invocations per session
MaxDelta == 2          \* sampled times lie within MaxDelta ms of a carry point
MaxMult == 2           \* ... of the first MaxMult multiples of each carry point
MaxFileSegs == 2       \* longest segment list written to a file and read back
MaxBlocks == 3         \* blocks of an uploaded SRT file
MaxTxtLines == 3       \* lines of an uploaded TXT file
MaxTtsCalls == 3       \* calls of generate_tts_audio in one process

\* ------------------------------------------------------- program constants
\* a chunk of half the size
chunk_size_half == 10 \div 2
chunk_size == 10
\* one attempt more
max_retries_four == 3 + 1
max_retries == 3

Langs == {"en", "ja"}              \* two of SUPPORTED_LANGUAGES
Genders == {"female", "male"}
Steps == {"upload", "extract", "translate", "tts", "result"}

None == [none |-> TRUE]
NoText == [lang |-> "none", v |-> 0]

Min(a, b) == IF a < b THEN a ELSE b

VARIABLES
    \* st.session_state
    current_step, video_info, subtitles, processing,
    translated_subtitles, tts_audio_paths, result_videos,
    \* objects and artifacts
    heap,            \* heap[g]: the segment objects of the g-th parsed set
    audio_files,     \* synthesized audio artifacts on disk: path -> voice
    nvideos,         \* ids handed out by generate_unique_id
    nops,            \* uploads, parses and stage invocations so far
    overwrites,      \* stage invocations for a key that already had an entry
    observe,         \* whether the run of translate_subtitles is recorded in log
    \* translate_subtitles: the running call
    pc, api_key, t_set, target_language, chunk_i, retry_count,
    translated_segments, log,
    before,          \* the segment objects and the records when the button was pressed
    \* the time and file functions called on their own
    u_fn,            \* the function under call
    u_in,            \* its argument
    u_text,          \* the text written or read, or the commands run, on the way
    u_out,           \* what it returned or raised
    \* extract_from_video's button with extract_subtitles and the whisper service
    x_pc,            \* where the run is
    x_ui,            \* what is selected on the page
    x_args,          \* the arguments extract_subtitles is called with
    x_requests,      \* the form bodies sent to the service, in order
    x_transcribed,   \* the options of every model.transcribe call of the service
    x_response,      \* the answer to the request
    x_result,        \* what extract_subtitles returned or raised
    \* the process that runs generate_tts_audio
    _tts_instance,   \* tts_handler._tts_instance
    _is_initialized, \* tts_handler._is_initialized
    speakers_file,   \* what is at TTS_SPEAKERS_FILE
    engines,         \* TTS objects constructed so far
    tts_log          \* the calls of generate_tts_audio so far, in order

session_vars == <<current_step, video_info, subtitles, processing,
                  translated_subtitles, tts_audio_paths, result_videos,
                  audio_files, nvideos, nops, overwrites, observe>>
translate_vars == <<pc, api_key, t_set, target_language, chunk_i, retry_count,
                    translated_segments, log, before>>
unit_vars == <<u_fn, u_in, u_text, u_out>>
extract_vars == <<x_pc, x_ui, x_args, x_requests, x_transcribed, x_response, x_result>>
tts_vars == <<_tts_instance, _is_initialized, speakers_file, engines, tts_log>>
vars == <<session_vars, heap, translate_vars, unit_vars, extract_vars, tts_vars>>

\* ------------------------------------------------------------- segments
\* schemas.SubtitleSegment; translated_text defaults to None
NewSegment(id, text) == [id |-> id, text |-> text, translated_text |-> NoText]

\* a parsed list of n segments with ids stride, 2*stride, ...
NewSegments(n, stride) == [p \in 1..n |-> NewSegment(p * stride, p)]

\* len(chunks) for chunks = [segments[i:i+chunk_size] for i in range(0, len, chunk_size)]
NumChunks(n) == (n + chunk_size - 1) \div chunk_size
\* chunk i (0-based, as enumerate gives it) covers positions ChunkLo..ChunkHi
ChunkLo(i) == i * chunk_size + 1
ChunkHi(i, n) == Min((i + 1) * chunk_size, n)

\* texts.append(f"{segment.id}. {segment.text}") for the segments of the chunk
Payload(segs, i) ==
    [k \in 1..(ChunkHi(i, Len(segs)) - ChunkLo(i) + 1) |->
        <<segs[ChunkLo(i) + k - 1].id, segs[ChunkLo(i) + k - 1].text>>]

\* ------------------------------------------------- the upstream's answers
\* A response line as the parser sees it:
\*   ok      "<int>. <content>"
\*   nosep   no ". " separator
\*   nonint  "<not an int>. <content>"
\*   blank   empty after strip()
OkLine(id, c) == [kind |-> "ok", id |-> id, content |-> c]
NoSepLine == [kind |-> "nosep", id |-> 0, content |-> NoText]
NonIntLine == [kind |-> "nonint", id |-> 0, content |-> NoText]
BlankLine == [kind |-> "blank", id |-> 0, content |-> NoText]

Shapes == {"full", "partial", "noisy"}

\* the responses the model's upstream gives to a chunk with the ids `ids`
\*   full     one line per id
\*   partial  as full, without the line of the first id
\*   noisy    malformed lines, a line for an id outside the chunk, every id
\*            once, and a second line for the first id
Response(shape, ids, lang) ==
    LET full == [k \in 1..Len(ids) |-> OkLine(ids[k], [lang |-> lang, v |-> 1])]
    IN  CASE shape = "full" -> full
          [] shape = "partial" -> Tail(full)
          [] shape = "noisy" ->
                <<NoSepLine, OkLine(ids[1] + chunk_size * MaxStride, [lang |-> lang, v |-> 2])>>
                \o full
                \o <<NonIntLine, BlankLine, OkLine(ids[1], [lang |-> lang, v |-> 2])>>

\* a search for the id in the whole list, not in the chunk
FirstMatch_anywhere(segs, lo, hi, id) ==
    LET hits == {p \in 1..Len(segs) : segs[p].id = id}
    IN  IF hits = {} THEN 0 ELSE CHOOSE p \in hits : \A q \in hits : p <= q

\* for segment in chunk: if segment.id == segment_id: set, break
FirstMatch(segs, lo, hi, id) ==
    LET hits == {p \in lo..hi : segs[p].id = id}
    IN  IF hits = {} THEN 0 ELSE CHOOSE p \in hits : \A q \in hits : p <= q

\* a pass in which a malformed line throws away what the chunk has so far
ApplyLine_dropping(segs, lo, hi, line) ==
    IF line.kind \in {"nosep", "nonint"}
      THEN [p \in 1..Len(segs) |->
              IF p \in lo..hi THEN [segs[p] EXCEPT !.translated_text = NoText]
              ELSE segs[p]]
    ELSE IF line.kind # "ok" THEN segs
    ELSE LET p == FirstMatch(segs, lo, hi, line.id)
         IN  IF p = 0 THEN segs
             ELSE [segs EXCEPT ![p].translated_text = line.content]

\* one pass of the `for line in lines` body over the chunk lo..hi
ApplyLine(segs, lo, hi, line) ==
    IF line.kind # "ok" THEN segs
    ELSE LET p == FirstMatch(segs, lo, hi, line.id)
         IN  IF p = 0 THEN segs
             ELSE [segs EXCEPT ![p].translated_text = line.content]

RECURSIVE ApplyLines(_, _, _, _)
ApplyLines(segs, lo, hi, lines) ==
    IF lines = <<>> THEN segs
    ELSE ApplyLines(ApplyLine(segs, lo, hi, Head(lines)), lo, hi, Tail(lines))

RECURSIVE Pow2(_)
Pow2(k) == IF k = 0 THEN 1 ELSE 2 * Pow2(k - 1)
\* the wait computed from the count before its increment
BackoffWait_early(rc) == Pow2(rc - 1)
\* wait_time = 2 ** retry_count
BackoffWait(rc) == Pow2(rc)

\* what the run did, in order: every upstream call with the chunk it carried
\* and what came back, and every time.sleep
CallEvent(i, payload, result, lines) ==
    [type |-> "call", chunk |-> i, secs |-> 0, payload |-> payload,
     result |-> result, lines |-> lines]
SleepEvent(i, s) ==
    [type |-> "sleep", chunk |-> i, secs |-> s, payload |-> <<>>,
     result |-> "none", lines |-> <<>>]

\* the events are appended to log where the run is observed
Record(events) == IF observe THEN log \o events ELSE log

\* ------------------------------------------------- translate_subtitles
Segs == heap[t_set]

\* the key is looked at before the list
TranslateEnter_keyfirst ==
    /\ pc = "start"
    /\ IF ~api_key
         THEN pc' = "raised"
         ELSE IF Len(Segs) = 0 THEN pc' = "returned" ELSE pc' = "call"
    /\ chunk_i' = 0
    /\ retry_count' = 0
    /\ translated_segments' = <<>>
    /\ log' = <<>>
    /\ UNCHANGED <<unit_vars, extract_vars, tts_vars, session_vars, heap, api_key, t_set, target_language, before>>

\* lines 40-65: the guards and the chunking
TranslateEnter ==
    /\ pc = "start"
    /\ IF Len(Segs) = 0
         THEN pc' = "returned"
         ELSE IF ~api_key THEN pc' = "raised" ELSE pc' = "call"
    /\ chunk_i' = 0
    /\ retry_count' = 0
    /\ translated_segments' = <<>>
    /\ log' = <<>>
    /\ UNCHANGED <<unit_vars, extract_vars, tts_vars, session_vars, heap, api_key, t_set, target_language, before>>

\* a failed attempt that has already put its chunk on the result list
UpstreamAPIError_extending ==
    /\ pc = "call"
    /\ retry_count' = retry_count + 1
    /\ translated_segments' = translated_segments \o
            [k \in 1..(ChunkHi(chunk_i, Len(Segs)) - ChunkLo(chunk_i) + 1) |->
                ChunkLo(chunk_i) + k - 1]
    /\ IF retry_count + 1 < max_retries
         THEN /\ log' = Record(<<CallEvent(chunk_i, Payload(Segs, chunk_i), "apierror", <<>>),
                                 SleepEvent(chunk_i, BackoffWait(retry_count + 1))>>)
              /\ pc' = "call"
         ELSE /\ log' = Record(<<CallEvent(chunk_i, Payload(Segs, chunk_i), "apierror", <<>>)>>)
              /\ pc' = "raised"
    /\ UNCHANGED <<unit_vars, extract_vars, tts_vars, session_vars, heap, api_key, t_set, target_language, chunk_i, before>>

\* lines 96-103 raise openai.APIError; lines 145-154
UpstreamAPIError ==
    /\ pc = "call"
    /\ retry_count' = retry_count + 1
    /\ IF retry_count + 1 < max_retries
         THEN /\ log' = Record(<<CallEvent(chunk_i, Payload(Segs, chunk_i), "apierror", <<>>),
                                 SleepEvent(chunk_i, BackoffWait(retry_count + 1))>>)
              /\ pc' = "call"
         ELSE /\ log' = Record(<<CallEvent(chunk_i, Payload(Segs, chunk_i), "apierror", <<>>)>>)
              /\ pc' = "raised"
    /\ UNCHANGED <<unit_vars, extract_vars, tts_vars, session_vars, heap, api_key, t_set, target_language, chunk_i,
                   translated_segments, before>>

\* a response without content handled as an API error is handled
UpstreamNoContent_retried ==
    /\ pc = "call"
    /\ retry_count' = retry_count + 1
    /\ IF retry_count + 1 < max_retries
         THEN /\ log' = Record(<<CallEvent(chunk_i, Payload(Segs, chunk_i), "nocontent", <<>>),
                                 SleepEvent(chunk_i, BackoffWait(retry_count + 1))>>)
              /\ pc' = "call"
         ELSE /\ log' = Record(<<CallEvent(chunk_i, Payload(Segs, chunk_i), "nocontent", <<>>)>>)
              /\ pc' = "raised"
    /\ UNCHANGED <<unit_vars, extract_vars, tts_vars, session_vars, heap, api_key, t_set, target_language, chunk_i,
                   translated_segments, before>>

\* line 106 on a message without content: AttributeError, caught at 162-164
UpstreamNoContent ==
    /\ pc = "call"
    /\ log' = Record(<<CallEvent(chunk_i, Payload(Segs, chunk_i), "nocontent", <<>>)>>)
    /\ pc' = "raised"
    /\ UNCHANGED <<unit_vars, extract_vars, tts_vars, session_vars, heap, api_key, t_set, target_language, chunk_i,
                   retry_count, translated_segments, before>>

\* a response after which the run sleeps whether or not a chunk is left
UpstreamResponse_pacing_all ==
    /\ pc = "call"
    /\ \E shape \in Shapes :
         LET n == Len(Segs)
             lo == ChunkLo(chunk_i)
             hi == ChunkHi(chunk_i, n)
             payload == Payload(Segs, chunk_i)
             ids == [k \in 1..Len(payload) |-> payload[k][1]]
             lines == Response(shape, ids, target_language)
             last == ~(chunk_i < NumChunks(n) - 1)
         IN  /\ heap' = [heap EXCEPT ![t_set] = ApplyLines(Segs, lo, hi, lines)]
             /\ translated_segments' = translated_segments \o [k \in 1..(hi - lo + 1) |-> lo + k - 1]
             /\ log' = Record(<<CallEvent(chunk_i, payload, "ok", lines),
                               SleepEvent(chunk_i, 1)>>)
             /\ IF last
                  THEN pc' = "returned" /\ UNCHANGED <<chunk_i, retry_count>>
                  ELSE pc' = "call" /\ chunk_i' = chunk_i + 1 /\ retry_count' = 0
    /\ UNCHANGED <<unit_vars, extract_vars, tts_vars, session_vars, api_key, t_set, target_language, before>>

\* a response after which the next chunk inherits the attempts already used
UpstreamResponse_carrying ==
    /\ pc = "call"
    /\ \E shape \in Shapes :
         LET n == Len(Segs)
             lo == ChunkLo(chunk_i)
             hi == ChunkHi(chunk_i, n)
             payload == Payload(Segs, chunk_i)
             ids == [k \in 1..Len(payload) |-> payload[k][1]]
             lines == Response(shape, ids, target_language)
             last == ~(chunk_i < NumChunks(n) - 1)
         IN  /\ heap' = [heap EXCEPT ![t_set] = ApplyLines(Segs, lo, hi, lines)]
             /\ translated_segments' = translated_segments \o [k \in 1..(hi - lo + 1) |-> lo + k - 1]
             /\ log' = IF last
                         THEN Record(<<CallEvent(chunk_i, payload, "ok", lines)>>)
                         ELSE Record(<<CallEvent(chunk_i, payload, "ok", lines),
                                       SleepEvent(chunk_i, 1)>>)
             /\ IF last
                  THEN pc' = "returned" /\ UNCHANGED <<chunk_i, retry_count>>
                  ELSE pc' = "call" /\ chunk_i' = chunk_i + 1 /\ retry_count' = retry_count
    /\ UNCHANGED <<unit_vars, extract_vars, tts_vars, session_vars, api_key, t_set, target_language, before>>

\* lines 96-143: the call answers, the lines are applied to the chunk
UpstreamResponse ==
    /\ pc = "call"
    /\ \E shape \in Shapes :
         LET n == Len(Segs)
             lo == ChunkLo(chunk_i)
             hi == ChunkHi(chunk_i, n)
             payload == Payload(Segs, chunk_i)
             ids == [k \in 1..Len(payload) |-> payload[k][1]]
             lines == Response(shape, ids, target_language)
             last == ~(chunk_i < NumChunks(n) - 1)
         IN  /\ heap' = [heap EXCEPT ![t_set] = ApplyLines(Segs, lo, hi, lines)]
             /\ translated_segments' = translated_segments \o [k \in 1..(hi - lo + 1) |-> lo + k - 1]
             /\ log' = IF last
                         THEN Record(<<CallEvent(chunk_i, payload, "ok", lines)>>)
                         ELSE Record(<<CallEvent(chunk_i, payload, "ok", lines),
                                       SleepEvent(chunk_i, 1)>>)
             /\ IF last
                  THEN pc' = "returned" /\ UNCHANGED <<chunk_i, retry_count>>
                  ELSE pc' = "call" /\ chunk_i' = chunk_i + 1 /\ retry_count' = 0
    /\ UNCHANGED <<unit_vars, extract_vars, tts_vars, session_vars, api_key, t_set, target_language, before>>

TranslateNext == TranslateEnter \/ UpstreamAPIError \/ UpstreamNoContent \/ UpstreamResponse

\* ---------------------------------------------------------- the session
\* init_session_state, lines 39-60
SessionInit ==
    /\ current_step = "upload"
    /\ video_info = None
    /\ subtitles = None
    /\ processing = FALSE
    /\ translated_subtitles = <<>>
    /\ tts_audio_paths = <<>>
    /\ result_videos = <<>>
    /\ audio_files = <<>>
    /\ nvideos = 0
    /\ nops = 0
    /\ overwrites = 0

\* no function is called on its own
NoUnit ==
    /\ u_fn = "none"
    /\ u_in = None
    /\ u_text = None
    /\ u_out = None

\* no extraction is running
NoExtract ==
    /\ x_pc = "idle"
    /\ x_ui = None
    /\ x_args = None
    /\ x_requests = <<>>
    /\ x_transcribed = <<>>
    /\ x_response = None
    /\ x_result = None

\* tts_handler.py, lines 22-24: the module as imported, no call made
NoTts ==
    /\ _tts_instance = None
    /\ _is_initialized = FALSE
    /\ speakers_file = None
    /\ engines = 0
    /\ tts_log = <<>>

\* translate_subtitles called on its own: any list of up to MaxSegs segments
\* with unique ascending ids, fresh or carrying the translated_text of a full
\* earlier translation to the other language
TranslateInit ==
    /\ SessionInit
    /\ observe = TRUE
    /\ NoUnit
    /\ NoExtract
    /\ NoTts
    /\ \E n \in 0..MaxSegs, stride \in 1..MaxStride, prior \in Langs \cup {"none"} :
         heap = <<[p \in 1..n |->
                    [NewSegments(n, stride)[p] EXCEPT !.translated_text =
                        IF prior = "none" THEN NoText ELSE [lang |-> prior, v |-> 1]]]>>
    /\ pc = "start"
    /\ api_key \in BOOLEAN
    /\ t_set = 1
    /\ target_language \in Langs
    /\ chunk_i = 0
    /\ retry_count = 0
    /\ translated_segments = <<>>
    /\ log = <<>>
    /\ before = None

SpecTranslate == TranslateInit /\ [][TranslateNext]_vars

\* ------------------------------------------------------- the page buttons
Idle == pc = "idle"

\* st.warning(...) returns the element it drew, which is truthy: the
\* `if not st.warning(...): return` of lines 567, 710 and 845 never returns
StWarning == TRUE

\* the number of segments a parsed subtitle file has in a session
SessionSegCounts == {1, chunk_size + 1}
\* the language selectbox of extract_from_video, lines 370-378
ExtractLanguages == {"auto", "ko", "en"}
DEFAULT_SOURCE_LANGUAGE == "ko"

\* dict assignment d[k] = v
Put(d, k, v) == (k :> v) @@ d

NoCallLocals ==
    /\ pc' = "idle"
    /\ t_set' = 0
    /\ target_language' = "none"
    /\ chunk_i' = 0
    /\ retry_count' = 0
    /\ translated_segments' = <<>>
    /\ log' = <<>>
    /\ before' = None

\* a file path: directory, the parts of the stem between "_", and the suffix
Path(dir, stem, suffix) == [dir |-> dir, stem |-> stem, suffix |-> suffix]
\* save_uploaded_file, lines 78-79: UPLOAD_DIR / original_<file_id>.<ext>
UploadPath(file_id, ext) == Path("uploads", <<"original", file_id>>, ext)
\* upload_new_video, lines 241-250: the VideoInfo of an uploaded mp4 file;
\* an Optional field is <<>> for None and <<v>> for v
VideoInfo(id) ==
    [id |-> id, path |-> UploadPath(id, ".mp4"), trimmed |-> FALSE,
     trimmed_path |-> <<>>, trim_start_ms |-> <<>>, trim_end_ms |-> <<>>]

\* an upload that also drops the translations of the previous video
UploadVideo_clearing ==
    /\ Idle /\ current_step = "upload"
    /\ nops < MaxOps
    /\ nops' = nops + 1
    /\ nvideos' = nvideos + 1
    /\ video_info' = VideoInfo(nvideos + 1)
    /\ translated_subtitles' = <<>>
    /\ UNCHANGED <<unit_vars, extract_vars, tts_vars, current_step, subtitles, processing,
                   tts_audio_paths, result_videos, audio_files, overwrites,
                   observe, heap, translate_vars>>

\* upload_new_video, lines 229-255
UploadVideo ==
    /\ Idle /\ current_step = "upload"
    /\ nops < MaxOps
    /\ nops' = nops + 1
    /\ nvideos' = nvideos + 1
    /\ video_info' = VideoInfo(nvideos + 1)
    /\ UNCHANGED <<unit_vars, extract_vars, tts_vars, current_step, subtitles, processing, translated_subtitles,
                   tts_audio_paths, result_videos, audio_files, overwrites,
                   observe, heap, translate_vars>>

\* show_upload_page, lines 199-201
NextExtract ==
    /\ Idle /\ current_step = "upload"
    /\ video_info # None
    /\ current_step' = "extract"
    /\ UNCHANGED <<unit_vars, extract_vars, tts_vars, video_info, subtitles, processing, translated_subtitles,
                   tts_audio_paths, result_videos, audio_files, nvideos, nops,
                   overwrites, observe, heap, translate_vars>>

\* extract_from_video, lines 408-438
ExtractFromVideo ==
    /\ Idle /\ current_step = "extract"
    /\ video_info # None /\ subtitles = None
    /\ nops < MaxOps
    /\ nops' = nops + 1
    /\ \E n \in SessionSegCounts, language \in ExtractLanguages :
         /\ heap' = Append(heap, NewSegments(n, 1))
         /\ subtitles' = [file_id |-> video_info.id, segments |-> Len(heap) + 1,
                          source_language |-> IF language = "auto"
                                                THEN DEFAULT_SOURCE_LANGUAGE
                                                ELSE language]
    /\ UNCHANGED <<unit_vars, extract_vars, tts_vars, current_step, video_info, processing, translated_subtitles,
                   tts_audio_paths, result_videos, audio_files, nvideos,
                   overwrites, observe, translate_vars>>

\* upload_subtitle_file, lines 458-478
UploadSubtitleFile ==
    /\ Idle /\ current_step = "extract"
    /\ video_info # None /\ subtitles = None
    /\ nops < MaxOps
    /\ nops' = nops + 1
    /\ \E n \in SessionSegCounts :
         /\ heap' = Append(heap, NewSegments(n, 1))
         /\ subtitles' = [file_id |-> video_info.id, segments |-> Len(heap) + 1,
                          source_language |-> DEFAULT_SOURCE_LANGUAGE]
    /\ UNCHANGED <<unit_vars, extract_vars, tts_vars, current_step, video_info, processing, translated_subtitles,
                   tts_audio_paths, result_videos, audio_files, nvideos,
                   overwrites, observe, translate_vars>>

\* edit_subtitle_upload, lines 499-522
EditSubtitleUpload ==
    /\ Idle /\ current_step = "extract"
    /\ video_info # None /\ subtitles # None
    /\ nops < MaxOps
    /\ nops' = nops + 1
    /\ \E n \in SessionSegCounts :
         /\ heap' = Append(heap, NewSegments(n, 1))
         /\ subtitles' = [file_id |-> video_info.id, segments |-> Len(heap) + 1,
                          source_language |-> DEFAULT_SOURCE_LANGUAGE]
    /\ UNCHANGED <<unit_vars, extract_vars, tts_vars, current_step, video_info, processing, translated_subtitles,
                   tts_audio_paths, result_videos, audio_files, nvideos,
                   overwrites, observe, translate_vars>>

\* show_extract_page, lines 318-320
NextTranslate ==
    /\ Idle /\ current_step = "extract"
    /\ video_info # None /\ subtitles # None
    /\ current_step' = "translate"
    /\ UNCHANGED <<unit_vars, extract_vars, tts_vars, video_info, subtitles, processing, translated_subtitles,
                   tts_audio_paths, result_videos, audio_files, nvideos, nops,
                   overwrites, observe, heap, translate_vars>>

\* show_extract_page, lines 268-273 and 323-325
ExtractBack ==
    /\ Idle /\ current_step = "extract"
    /\ video_info = None \/ subtitles # None
    /\ current_step' = "upload"
    /\ UNCHANGED <<unit_vars, extract_vars, tts_vars, video_info, subtitles, processing, translated_subtitles,
                   tts_audio_paths, result_videos, audio_files, nvideos, nops,
                   overwrites, observe, heap, translate_vars>>

\* show_translate_page, lines 549-550
TargetOptions == {code \in Langs : code # subtitles.source_language}

\* show_translate_page, lines 564-579: the button, up to the call
TranslateStart ==
    /\ Idle /\ current_step = "translate"
    /\ subtitles # None
    /\ nops < MaxOps
    /\ \E lang \in TargetOptions :
         /\ lang \in DOMAIN translated_subtitles => StWarning
         /\ overwrites' = IF lang \in DOMAIN translated_subtitles
                             THEN overwrites + 1 ELSE overwrites
         /\ target_language' = lang
    /\ nops' = nops + 1
    /\ processing' = TRUE
    /\ pc' = "start"
    /\ t_set' = subtitles.segments
    /\ before' = [heap |-> heap, translated_subtitles |-> translated_subtitles]
    /\ UNCHANGED <<unit_vars, extract_vars, tts_vars, current_step, video_info, subtitles, translated_subtitles,
                   tts_audio_paths, result_videos, audio_files, nvideos, observe,
                   heap, api_key, chunk_i, retry_count, translated_segments, log>>

\* show_translate_page, lines 581-597: the files are written, the record stored
TranslateStore ==
    /\ pc = "returned" /\ current_step = "translate"
    /\ translated_subtitles' =
         Put(translated_subtitles, target_language,
             [set |-> t_set, segments |-> translated_segments,
              srt_path |-> <<"translated", subtitles.file_id, target_language>>])
    /\ processing' = FALSE
    /\ NoCallLocals
    /\ UNCHANGED <<unit_vars, extract_vars, tts_vars, current_step, video_info, subtitles, tts_audio_paths,
                   result_videos, audio_files, nvideos, nops, overwrites, observe,
                   heap, api_key>>

\* show_translate_page, lines 598-600: translate_subtitles or
\* save_translated_subtitles raised
TranslateFailed ==
    /\ pc \in {"raised", "returned"} /\ current_step = "translate"
    /\ processing' = FALSE
    /\ NoCallLocals
    /\ UNCHANGED <<unit_vars, extract_vars, tts_vars, current_step, video_info, subtitles, translated_subtitles,
                   tts_audio_paths, result_videos, audio_files, nvideos, nops,
                   overwrites, observe, heap, api_key>>

\* the next-step button drawn without the check of line 645
NextTts_ungated ==
    /\ Idle /\ current_step = "translate"
    /\ subtitles # None
    /\ current_step' = "tts"
    /\ UNCHANGED <<unit_vars, extract_vars, tts_vars, video_info, subtitles, processing, translated_subtitles,
                   tts_audio_paths, result_videos, audio_files, nvideos, nops,
                   overwrites, observe, heap, translate_vars>>

\* show_translate_page, lines 645-648
NextTts ==
    /\ Idle /\ current_step = "translate"
    /\ subtitles # None
    /\ DOMAIN translated_subtitles # {}
    /\ current_step' = "tts"
    /\ UNCHANGED <<unit_vars, extract_vars, tts_vars, video_info, subtitles, processing, translated_subtitles,
                   tts_audio_paths, result_videos, audio_files, nvideos, nops,
                   overwrites, observe, heap, translate_vars>>

\* show_translate_page, lines 537-539 and 653-655
TranslateBack ==
    /\ Idle /\ current_step = "translate"
    /\ current_step' = "extract"
    /\ UNCHANGED <<unit_vars, extract_vars, tts_vars, video_info, subtitles, processing, translated_subtitles,
                   tts_audio_paths, result_videos, audio_files, nvideos, nops,
                   overwrites, observe, heap, translate_vars>>

\* generate_tts_audio, line 139: output_path
TtsPath(file_id, lang, gender) == <<"tts", file_id, lang>>

\* show_tts_page, lines 707-739, with generate_tts_audio
GenerateTts ==
    /\ Idle /\ current_step = "tts"
    /\ DOMAIN translated_subtitles # {}
    /\ nops < MaxOps
    /\ \E lang \in DOMAIN translated_subtitles, gender \in Genders, ok \in BOOLEAN :
         LET tts_key == <<lang, gender>>
             path == TtsPath(subtitles.file_id, lang, gender)
         IN  /\ tts_key \in DOMAIN tts_audio_paths => StWarning
             /\ overwrites' = IF tts_key \in DOMAIN tts_audio_paths
                                 THEN overwrites + 1 ELSE overwrites
             /\ IF ok /\ subtitles # None
                  THEN /\ audio_files' = Put(audio_files, path, [lang |-> lang, gender |-> gender])
                       /\ tts_audio_paths' = Put(tts_audio_paths, tts_key, path)
                  ELSE UNCHANGED <<audio_files, tts_audio_paths>>
    /\ nops' = nops + 1
    /\ UNCHANGED <<unit_vars, extract_vars, tts_vars, current_step, video_info, subtitles, processing,
                   translated_subtitles, result_videos, nvideos, observe, heap,
                   translate_vars>>

\* show_tts_page, lines 757-760
NextResult ==
    /\ Idle /\ current_step = "tts"
    /\ DOMAIN translated_subtitles # {}
    /\ DOMAIN tts_audio_paths # {}
    /\ current_step' = "result"
    /\ UNCHANGED <<unit_vars, extract_vars, tts_vars, video_info, subtitles, processing, translated_subtitles,
                   tts_audio_paths, result_videos, audio_files, nvideos, nops,
                   overwrites, observe, heap, translate_vars>>

\* show_tts_page, lines 667-669 and 765-767
TtsBack ==
    /\ Idle /\ current_step = "tts"
    /\ current_step' = "translate"
    /\ UNCHANGED <<unit_vars, extract_vars, tts_vars, video_info, subtitles, processing, translated_subtitles,
                   tts_audio_paths, result_videos, audio_files, nvideos, nops,
                   overwrites, observe, heap, translate_vars>>

\* show_result_page, line 782
ResultReady ==
    /\ video_info # None /\ subtitles # None
    /\ DOMAIN translated_subtitles # {} /\ DOMAIN tts_audio_paths # {}

\* combine_video, line 154: output_path
ResultPath(file_id, lang) == <<"result", file_id, lang>>

\* show_result_page, lines 842-879, with combine_video
CombineVideo ==
    /\ Idle /\ current_step = "result"
    /\ ResultReady
    /\ nops < MaxOps
    /\ \E selected_tts \in DOMAIN tts_audio_paths, ok \in BOOLEAN :
         /\ selected_tts \in DOMAIN result_videos => StWarning
         /\ overwrites' = IF selected_tts \in DOMAIN result_videos
                             THEN overwrites + 1 ELSE overwrites
         /\ IF ok
              THEN result_videos' = Put(result_videos, selected_tts,
                                        ResultPath(video_info.id, selected_tts[1]))
              ELSE UNCHANGED result_videos
    /\ nops' = nops + 1
    /\ UNCHANGED <<unit_vars, extract_vars, tts_vars, current_step, video_info, subtitles, processing,
                   translated_subtitles, tts_audio_paths, audio_files, nvideos,
                   observe, heap, translate_vars>>

\* show_result_page, lines 904-911, and init_session_state on the rerun
NewTask ==
    /\ Idle /\ current_step = "result"
    /\ ResultReady
    /\ video_info' = None
    /\ subtitles' = None
    /\ translated_subtitles' = <<>>
    /\ tts_audio_paths' = <<>>
    /\ result_videos' = <<>>
    /\ current_step' = "upload"
    /\ UNCHANGED <<unit_vars, extract_vars, tts_vars, processing, audio_files, nvideos, nops, overwrites, observe,
                   heap, translate_vars>>

\* show_result_page, lines 794-796 and 914-916
ResultBack ==
    /\ Idle /\ current_step = "result"
    /\ current_step' = "tts"
    /\ UNCHANGED <<unit_vars, extract_vars, tts_vars, video_info, subtitles, processing, translated_subtitles,
                   tts_audio_paths, result_videos, audio_files, nvideos, nops,
                   overwrites, observe, heap, translate_vars>>

Init ==
    /\ SessionInit
    /\ observe = FALSE
    /\ NoUnit
    /\ NoExtract
    /\ NoTts
    /\ heap = <<>>
    /\ pc = "idle"
    /\ api_key \in BOOLEAN
    /\ t_set = 0
    /\ target_language = "none"
    /\ chunk_i = 0
    /\ retry_count = 0
    /\ translated_segments = <<>>
    /\ log = <<>>
    /\ before = None

Next ==
    \/ UploadVideo \/ NextExtract
    \/ ExtractFromVideo \/ UploadSubtitleFile \/ EditSubtitleUpload
    \/ NextTranslate \/ ExtractBack
    \/ TranslateStart \/ TranslateEnter \/ UpstreamAPIError \/ UpstreamNoContent
    \/ UpstreamResponse \/ TranslateStore \/ TranslateFailed
    \/ NextTts \/ TranslateBack
    \/ GenerateTts \/ NextResult \/ TtsBack
    \/ CombineVideo \/ NewTask \/ ResultBack

Spec == Init /\ [][Next]_vars

\* ------------------------------------------------------------- strings
\* A string is the sequence of its characters.
Digit == <<"0", "1", "2", "3", "4", "5", "6", "7", "8", "9">>
IsDigit(c) == \E d \in 1..10 : Digit[d] = c
DigitVal(c) == (CHOOSE d \in 1..10 : Digit[d] = c) - 1
IsSpace(c) == c \in {" ", "\n"}

\* int(s) of a string of digits
RECURSIVE ToInt(_)
ToInt(s) ==
    IF s = <<>> THEN 0
    ELSE 10 * ToInt(SubSeq(s, 1, Len(s) - 1)) + DigitVal(s[Len(s)])

\* str.strip()
RECURSIVE Strip(_)
Strip(s) ==
    IF s = <<>> THEN s
    ELSE IF IsSpace(s[1]) THEN Strip(Tail(s))
    ELSE IF IsSpace(s[Len(s)]) THEN Strip(SubSeq(s, 1, Len(s) - 1))
    ELSE s

\* f"{n:d}" for n >= 0
RECURSIVE Decimal(_)
Decimal(n) ==
    IF n < 10 THEN <<Digit[n + 1]>>
    ELSE Decimal(n \div 10) \o <<Digit[(n % 10) + 1]>>

RECURSIVE ZeroPad(_, _)
ZeroPad(s, w) == IF Len(s) >= w THEN s ELSE ZeroPad(<<"0">> \o s, w)

\* the number written without its leading zeros
Fmt_unpadded(n, w) == Decimal(n)
\* f"{n:0wd}" for n >= 0
Fmt(n, w) == ZeroPad(Decimal(n), w)

\* what a call gives back: a value, or the exception it ends in
Value(v) == [value |-> v]
Raised(e) == [raised |-> e]

\* ------------------------------------------------ utils/time_converter.py
\* lines 87-97
ms_to_srt_time(ms) ==
    LET ms0 == IF ms < 0 THEN 0 ELSE ms
        hours == ms0 \div (3600 * 1000)
        ms1 == ms0 % (3600 * 1000)
        minutes == ms1 \div (60 * 1000)
        ms2 == ms1 % (60 * 1000)
        seconds == ms2 \div 1000
        ms3 == ms2 % 1000
    IN  Fmt(hours, 2) \o <<":">> \o Fmt(minutes, 2) \o <<":">> \o Fmt(seconds, 2)
            \o <<",">> \o Fmt(ms3, 3)

\* r"^(\d{2}):(\d{2}):(\d{2})[,.](\d{3})$" on a string without line breaks
SrtTimeMatches(t) ==
    /\ Len(t) = 12
    /\ \A i \in {1, 2, 4, 5, 7, 8, 10, 11, 12} : IsDigit(t[i])
    /\ t[3] = ":" /\ t[6] = ":"
    /\ t[9] \in {",", "."}

\* lines 67-74
srt_time_to_ms(srt_time) ==
    LET t == Strip(srt_time)
    IN  IF ~SrtTimeMatches(t) THEN Raised("ValueError")
        ELSE Value(ToInt(SubSeq(t, 1, 2)) * 3600 * 1000 + ToInt(SubSeq(t, 4, 5)) * 60 * 1000
                   + ToInt(SubSeq(t, 7, 8)) * 1000 + ToInt(SubSeq(t, 10, 12)))

\* `not s or s.strip() == ""`
IsBlank(s) == Strip(s) = <<>>

\* r"^(\d+):([0-5]?\d)$" on a string without line breaks
TimeMatches(t) ==
    \E c \in 2..Len(t) :
        /\ t[c] = ":"
        /\ \A i \in 1..(c - 1) : IsDigit(t[i])
        /\ Len(t) - c \in {1, 2}
        /\ \A i \in (c + 1)..Len(t) : IsDigit(t[i])
        /\ Len(t) - c = 2 => DigitVal(t[c + 1]) <= 5

\* lines 21-31
time_to_ms(time_str) ==
    IF IsBlank(time_str) THEN Value(0)
    ELSE LET t == Strip(time_str)
         IN  IF ~TimeMatches(t) THEN Raised("format")
             ELSE LET c == CHOOSE c \in 2..Len(t) : t[c] = ":"
                      minutes == ToInt(SubSeq(t, 1, c - 1))
                      seconds == ToInt(SubSeq(t, c + 1, Len(t)))
                  IN  Value((minutes * 60 + seconds) * 1000)

\* float("inf")
Infinity == [inf |-> TRUE]
\* the pairs validate_time_range returns
Valid == [valid |-> TRUE, message |-> "none"]
Invalid(m) == [valid |-> FALSE, message |-> m]

\* an end equal to the start passes
validate_time_range_equal_ok(start_time, end_time) ==
    IF IsBlank(start_time) /\ IsBlank(end_time) THEN Valid
    ELSE LET start_ms == IF ~IsBlank(start_time) THEN time_to_ms(start_time) ELSE Value(0)
             end_ms == IF ~IsBlank(end_time) THEN time_to_ms(end_time) ELSE Infinity
         IN  IF start_ms = Raised("format") \/ end_ms = Raised("format")
               THEN Invalid("format")
             ELSE IF end_ms # Infinity /\ start_ms.value > end_ms.value
               THEN Invalid("ordering")
             ELSE Valid

\* lines 112-124
validate_time_range(start_time, end_time) ==
    IF IsBlank(start_time) /\ IsBlank(end_time) THEN Valid
    ELSE LET start_ms == IF ~IsBlank(start_time) THEN time_to_ms(start_time) ELSE Value(0)
             end_ms == IF ~IsBlank(end_time) THEN time_to_ms(end_time) ELSE Infinity
         IN  IF start_ms = Raised("format") \/ end_ms = Raised("format")
               THEN Invalid("format")
             ELSE IF end_ms # Infinity /\ start_ms.value >= end_ms.value
               THEN Invalid("ordering")
             ELSE Valid

\* ---------------------------------------- backend/subtitle_handler.py: SRT
\* The content of a subtitle file is the sequence of its lines, each ended by
\* a line break.  A line is
\*   num    digits only                     "12"
\*   time   "<stamp> --> <stamp>"           the stamps as written
\*   words  anything else that is not blank, not ending in a digit
\*   blank  empty or white space only
\* The text of a segment is a non-empty sequence of such lines joined by line
\* breaks; the empty string is one blank line.
NumLine(digits) == [kind |-> "num", digits |-> digits]
TimeLine(a, b) == [kind |-> "time", start |-> a, end |-> b]
WordLine(w) == [kind |-> "words", w |-> w]
BlankLn == [kind |-> "blank"]
EmptyText == <<BlankLn>>

\* a segment as the file functions see it (schemas.SubtitleSegment)
FileSegment(id, start_ms, end_ms, text) ==
    [id |-> id, start_ms |-> start_ms, end_ms |-> end_ms, text |-> text,
     translated_text |-> EmptyText]

\* `segment.translated_text if translated and segment.translated_text else segment.text`
TextOf(segment, translated) ==
    IF translated /\ segment.translated_text # EmptyText
      THEN segment.translated_text ELSE segment.text

\* save_subtitles_to_file, lines 328-336, for file_format "srt"
RECURSIVE SrtContent(_, _)
SrtContent(segments, translated) ==
    IF segments = <<>> THEN <<>>
    ELSE LET segment == Head(segments)
         IN  <<NumLine(Decimal(segment.id)),
               TimeLine(ms_to_srt_time(segment.start_ms), ms_to_srt_time(segment.end_ms))>>
             \o TextOf(segment, translated)
             \o <<BlankLn>>
             \o SrtContent(Tail(segments), translated)

\* the index of the first line at or after `from` that is not blank, or
\* Len(lines) + 1
RECURSIVE FirstNonBlank(_, _)
FirstNonBlank(lines, from) ==
    IF from > Len(lines) THEN Len(lines) + 1
    ELSE IF lines[from].kind # "blank" THEN from
    ELSE FirstNonBlank(lines, from + 1)

\* r"(\d{2}:\d{2}:\d{2}[,.]\d{3})\s*-->\s*(\d{2}:\d{2}:\d{2}[,.]\d{3})\s*\n"
TimeLineMatches(line) ==
    /\ line.kind = "time"
    /\ SrtTimeMatches(line.start)
    /\ SrtTimeMatches(line.end)

\* r"(\d+)\s*\n" followed by the time line: \s* runs over blank lines
BlockStartsAt(lines, i) ==
    /\ lines[i].kind = "num"
    /\ FirstNonBlank(lines, i + 1) <= Len(lines)
    /\ TimeLineMatches(lines[FirstNonBlank(lines, i + 1)])

\* the lookahead r"(?=\n\s*\n\s*\d+\s*\n|$)" at the end of line u: a blank
\* line or more and then a line of digits, or the end of the content
TextEndsAt(lines, u) ==
    \/ u >= Len(lines)
    \/ /\ lines[u + 1].kind = "blank"
       /\ FirstNonBlank(lines, u + 1) <= Len(lines)
       /\ lines[FirstNonBlank(lines, u + 1)].kind = "num"

\* r"([\s\S]*?)": the text runs from line t to the first line it can end at
RECURSIVE TextEnd(_, _)
TextEnd(lines, u) == IF TextEndsAt(lines, u) THEN u ELSE TextEnd(lines, u + 1)

\* str.strip() of a text: the blank lines at its ends go
RECURSIVE StripLines(_)
StripLines(text) ==
    IF text = <<>> THEN EmptyText
    ELSE IF Head(text).kind = "blank" THEN StripLines(Tail(text))
    ELSE IF text[Len(text)].kind = "blank" THEN StripLines(SubSeq(text, 1, Len(text) - 1))
    ELSE text

\* the `for match in pattern.finditer(content)` of lines 158-175, from line i:
\* a block is an index line, the time line after it and the text up to where
\* the lookahead holds; lines that start no block are passed over
RECURSIVE ParseSrtFrom(_, _)
ParseSrtFrom(lines, i) ==
    IF i > Len(lines) THEN <<>>
    ELSE IF ~BlockStartsAt(lines, i) THEN ParseSrtFrom(lines, i + 1)
    ELSE LET j == FirstNonBlank(lines, i + 1)
             t == FirstNonBlank(lines, j + 1)
             u == TextEnd(lines, t)
             text == IF t > Len(lines) THEN <<>> ELSE SubSeq(lines, t, u)
         IN  <<[id |-> ToInt(lines[i].digits),
                start_ms |-> srt_time_to_ms(lines[j].start),
                end_ms |-> srt_time_to_ms(lines[j].end),
                text |-> StripLines(text)]>>
             \o ParseSrtFrom(lines, u + 1)

\* parse_srt_file, lines 139-182
parse_srt_file(lines) ==
    LET found == ParseSrtFrom(lines, 1)
    IN  IF \E k \in 1..Len(found) :
               found[k].start_ms = Raised("ValueError") \/ found[k].end_ms = Raised("ValueError")
          THEN Raised("ValueError")
          ELSE Value([k \in 1..Len(found) |->
                        FileSegment(found[k].id, found[k].start_ms.value,
                                    found[k].end_ms.value, found[k].text)])

\* ---------------------------------------- backend/subtitle_handler.py: TXT
\* whether " - " starts at index i of s
SepAt(s, i) == i + 2 <= Len(s) /\ s[i] = " " /\ s[i + 1] = "-" /\ s[i + 2] = " "
FirstSep(s) ==
    LET hits == {i \in 1..Len(s) : SepAt(s, i)}
    IN  IF hits = {} THEN 0 ELSE CHOOSE i \in hits : \A j \in hits : i <= j

\* s.split(" - ", maxsplit)
RECURSIVE Split(_, _)
Split(s, maxsplit) ==
    IF maxsplit = 0 \/ FirstSep(s) = 0 THEN <<s>>
    ELSE <<SubSeq(s, 1, FirstSep(s) - 1)>>
         \o Split(SubSeq(s, FirstSep(s) + 3, Len(s)), maxsplit - 1)

\* whether int(x) returns: an optional sign and digits, white space around
IsIntLiteral(x) ==
    LET t == Strip(x)
        body == IF t # <<>> /\ t[1] \in {"+", "-"} THEN Tail(t) ELSE t
    IN  body # <<>> /\ \A i \in 1..Len(body) : IsDigit(body[i])
\* int(x)
IntOf(x) ==
    LET t == Strip(x)
    IN  IF t[1] = "-" THEN 0 - ToInt(Tail(t))
        ELSE IF t[1] = "+" THEN ToInt(Tail(t))
        ELSE ToInt(t)

\* a loop that counts every non-blank line, accepted or not
RECURSIVE ParseTxtCountingLines(_, _, _)
ParseTxtCountingLines(lines, i, segment_id) ==
    IF i > Len(lines) THEN <<>>
    ELSE LET line == Strip(lines[i])
             parts == Split(line, 2)
         IN  IF line = <<>> THEN ParseTxtCountingLines(lines, i + 1, segment_id)
             ELSE IF Len(parts) < 3 THEN ParseTxtCountingLines(lines, i + 1, segment_id + 1)
             ELSE IF ~IsIntLiteral(parts[1]) \/ ~IsIntLiteral(parts[2])
               THEN ParseTxtCountingLines(lines, i + 1, segment_id + 1)
             ELSE <<FileSegment(segment_id, IntOf(parts[1]), IntOf(parts[2]), parts[3])>>
                  \o ParseTxtCountingLines(lines, i + 1, segment_id + 1)

\* the `for line in lines` of lines 263-289, from line i
RECURSIVE ParseTxtFrom(_, _, _)
ParseTxtFrom(lines, i, segment_id) ==
    IF i > Len(lines) THEN <<>>
    ELSE LET line == Strip(lines[i])
             parts == Split(line, 2)
         IN  IF line = <<>> THEN ParseTxtFrom(lines, i + 1, segment_id)
             ELSE IF Len(parts) < 3 THEN ParseTxtFrom(lines, i + 1, segment_id)
             ELSE IF ~IsIntLiteral(parts[1]) \/ ~IsIntLiteral(parts[2])
               THEN ParseTxtFrom(lines, i + 1, segment_id)
             ELSE <<FileSegment(segment_id, IntOf(parts[1]), IntOf(parts[2]), parts[3])>>
                  \o ParseTxtFrom(lines, i + 1, segment_id + 1)

\* ids that count the skipped lines too
parse_txt_file_counting_lines(lines) == Value(ParseTxtCountingLines(lines, 1, 1))
\* parse_txt_file, lines 251-296
parse_txt_file(lines) == Value(ParseTxtFrom(lines, 1, 1))

\* ------------------------------------------- the functions on their own
\* times around the places where a field of the time stamp carries: 0, and
\* the multiples of a second, a minute, an hour, ten and a hundred hours
CarryPoints == {1000, 60 * 1000, 3600 * 1000, 10 * 3600 * 1000, 100 * 3600 * 1000}
SrtMsSamples ==
    {d : d \in (0 - MaxDelta)..MaxDelta}
    \cup {k * b + d : k \in 1..MaxMult, b \in CarryPoints, d \in (0 - MaxDelta)..MaxDelta}

\* what a user may type into the two time boxes of the trim form
DisplayStrings ==
    {<<>>,
     <<" ">>,
     <<"0", ":", "0", "0">>,
     <<"0", ":", "5", "9">>,
     <<"1", ":", "0", "0">>,
     <<"0", "1", ":", "0", "0">>,
     <<"0", "5", ":", "0", "0">>,
     <<"1", ":", "5">>,
     <<"1", ":", "6", "0">>,
     <<"a", "b", "c">>,
     <<"1", ":", "0", "0", "5">>,
     <<":", "3", "0">>,
     <<" ", "2", ":", "0", "0", " ">>,
     <<"1", "0", "0", ":", "0", "0">>}

\* texts of a segment: one line, two lines, the empty string, a line and a
\* line break, and a text with an empty line and a number line inside
FileTexts ==
    {<<WordLine("a")>>,
     <<WordLine("a"), WordLine("b")>>,
     EmptyText,
     <<WordLine("a"), BlankLn>>,
     <<WordLine("a"), BlankLn, NumLine(<<"7">>), WordLine("b")>>}
\* start times of a segment; the last is 100 hours
FileTimes == {0, 1500, 100 * 3600 * 1000 - 1000, 100 * 3600 * 1000}
\* a segment has one of the texts at time 0, or the one-line text at one of
\* the times
FileSegmentShapes ==
    {[start_ms |-> 0, text |-> text] : text \in FileTexts}
    \cup {[start_ms |-> start, text |-> <<WordLine("a")>>] : start \in FileTimes}
FileSegmentLists ==
    UNION {{[p \in 1..n |-> FileSegment(p * stride, shape[p].start_ms,
                                         shape[p].start_ms + 999, shape[p].text)] :
              stride \in 1..MaxStride, shape \in [1..n -> FileSegmentShapes]} :
           n \in 1..MaxFileSegs}

\* the blocks of an uploaded SRT file: well-formed, with an index that is not
\* a number, or with a time stamp without its milliseconds
BlockShapes == {"good", "badindex", "badtime"}
BadStamp == <<"0", "0", ":", "0", "0", ":", "0", "1">>
UploadedBlock(shape, k) ==
    <<IF shape = "badindex" THEN WordLine("x") ELSE NumLine(Decimal(k)),
      IF shape = "badtime"
        THEN TimeLine(BadStamp, ms_to_srt_time(1000 * k + 500))
        ELSE TimeLine(ms_to_srt_time(1000 * k), ms_to_srt_time(1000 * k + 500)),
      WordLine("a"),
      BlankLn>>
RECURSIVE UploadedSrt(_, _)
UploadedSrt(shapes, k) ==
    IF k > Len(shapes) THEN <<>>
    ELSE UploadedBlock(shapes[k], k) \o UploadedSrt(shapes, k + 1)
UploadedShapes == UNION {[1..n -> BlockShapes] : n \in 1..MaxBlocks}

\* the lines of an uploaded TXT file
TxtLines ==
    {<<"0", " ", "-", " ", "9", " ", "-", " ", "a">>,
     <<"5", " ", "-", " ", "7", " ", "-", " ", "a", " ", "-", " ", "b">>,
     <<"-", "2", " ", "-", " ", "4", " ", "-", " ", "a">>,
     <<"7", " ", "-", " ", "8", " ", "-", " ", "2", ".", " ", "b">>,
     <<"x", " ", "-", " ", "9", " ", "-", " ", "a">>,
     <<"3", " ", "-", " ", "y", " ", "-", " ", "a">>,
     <<"3", " ", "-", " ", "4">>,
     <<"3", " ", "-", " ", "4", " ", "-", " ">>,
     <<>>,
     <<" ", " ">>}
UploadedTxts == UNION {[1..n -> TxtLines] : n \in 0..MaxTxtLines}

\* ------------------------------------------------------------ trim_video
\* trim_video, lines 71-74: PROCESSED_DIR / trimmed_<file_id><suffix>
TrimmedPath(video_path) ==
    Path("processed", <<"trimmed", video_path.stem[Len(video_path.stem)]>>,
         video_path.suffix)

\* trim_video, lines 82-102: the command handed to ffmpeg.run; times in ms
TrimCommand(video_path, start_ms, end_ms) ==
    [input |-> video_path,
     start |-> start_ms,
     duration |-> IF end_ms # <<>> THEN <<end_ms[1] - start_ms>> ELSE <<>>,
     setpts |-> "PTS-STARTPTS",
     output |-> TrimmedPath(video_path),
     c |-> "copy"]

\* a trim that cuts whatever the range is
trim_video_always(video_path, start_ms, end_ms, ran) ==
    [runs |-> <<TrimCommand(video_path, start_ms, end_ms)>>,
     returns |-> IF ran THEN Value(TrimmedPath(video_path))
                 ELSE Raised("ValueError")]

\* trim_video, lines 63-113; end_ms is <<>> for None and <<e>> for e;
\* ran: whether ffmpeg.run of line 102 succeeds
trim_video(video_path, start_ms, end_ms, ran) ==
    IF start_ms = 0 /\ end_ms = <<>>
      THEN [runs |-> <<>>, returns |-> Value(video_path)]
      ELSE [runs |-> <<TrimCommand(video_path, start_ms, end_ms)>>,
            returns |-> IF ran THEN Value(TrimmedPath(video_path))
                        ELSE Raised("ValueError")]

\* the paths and ranges that trim_video is called with
TrimPaths ==
    {UploadPath(1, ".mp4"), UploadPath(2, ".avi"),
     Path("processed", <<"trimmed", 1>>, ".mp4"), Path("clips", <<3>>, ".mp4")}
TrimTimes == {0, 1, 1000, 90000}
TrimInputs ==
    [video_path : TrimPaths, start_ms : TrimTimes,
     end_ms : {<<>>} \cup {<<e>> : e \in TrimTimes}]

UnitInit ==
    /\ SessionInit
    /\ observe = FALSE
    /\ heap = <<>>
    /\ pc = "idle"
    /\ api_key = FALSE
    /\ t_set = 0
    /\ target_language = "none"
    /\ chunk_i = 0
    /\ retry_count = 0
    /\ translated_segments = <<>>
    /\ log = <<>>
    /\ before = None
    /\ NoExtract
    /\ NoTts
    /\ u_out = None
    /\ \/ u_fn = "srt_time" /\ u_in \in SrtMsSamples /\ u_text = None
       \/ /\ u_fn = "time_range"
          /\ u_in \in [start_time : DisplayStrings, end_time : DisplayStrings]
          /\ u_text = None
       \/ u_fn = "srt_file" /\ u_in \in FileSegmentLists /\ u_text = None
       \/ u_fn = "srt_upload" /\ u_in \in UploadedShapes /\ u_text = UploadedSrt(u_in, 1)
       \/ u_fn = "txt_upload" /\ u_in \in UploadedTxts /\ u_text = u_in
       \/ u_fn = "trim" /\ u_in \in TrimInputs /\ u_text = <<>>

\* ms_to_srt_time(ms)
FormatSrtTime ==
    /\ u_fn = "srt_time" /\ u_text = None
    /\ u_text' = ms_to_srt_time(u_in)
    /\ UNCHANGED <<session_vars, heap, translate_vars, extract_vars, tts_vars, u_fn, u_in, u_out>>

\* srt_time_to_ms of what was written
ParseSrtTime ==
    /\ u_fn = "srt_time" /\ u_text # None /\ u_out = None
    /\ u_out' = srt_time_to_ms(u_text)
    /\ UNCHANGED <<session_vars, heap, translate_vars, extract_vars, tts_vars, u_fn, u_in, u_text>>

\* validate_time_range(start_time, end_time)
ValidateTimeRange ==
    /\ u_fn = "time_range" /\ u_out = None
    /\ u_out' = validate_time_range(u_in.start_time, u_in.end_time)
    /\ UNCHANGED <<session_vars, heap, translate_vars, extract_vars, tts_vars, u_fn, u_in, u_text>>

\* save_subtitles_to_file(segments, path, "srt", translated=False)
SaveSubtitlesToFile ==
    /\ u_fn = "srt_file" /\ u_text = None
    /\ u_text' = SrtContent(u_in, FALSE)
    /\ UNCHANGED <<session_vars, heap, translate_vars, extract_vars, tts_vars, u_fn, u_in, u_out>>

\* parse_srt_file of the file written or uploaded
ParseSrtFile ==
    /\ u_fn \in {"srt_file", "srt_upload"} /\ u_text # None /\ u_out = None
    /\ u_out' = parse_srt_file(u_text)
    /\ UNCHANGED <<session_vars, heap, translate_vars, extract_vars, tts_vars, u_fn, u_in, u_text>>

\* parse_txt_file of the file uploaded
ParseTxtFile ==
    /\ u_fn = "txt_upload" /\ u_out = None
    /\ u_out' = parse_txt_file(u_text)
    /\ UNCHANGED <<session_vars, heap, translate_vars, extract_vars, tts_vars, u_fn, u_in, u_text>>

\* trim_video(video_path, start_ms, end_ms); u_text takes the commands run
TrimVideoCall ==
    /\ u_fn = "trim" /\ u_out = None
    /\ \E ran \in BOOLEAN :
         LET call == trim_video(u_in.video_path, u_in.start_ms, u_in.end_ms, ran)
         IN  /\ u_text' = call.runs
             /\ u_out' = call.returns
    /\ UNCHANGED <<session_vars, heap, translate_vars, extract_vars, tts_vars, u_fn, u_in>>

UnitNext ==
    \/ FormatSrtTime \/ ParseSrtTime \/ ValidateTimeRange
    \/ SaveSubtitlesToFile \/ ParseSrtFile \/ ParseTxtFile
    \/ TrimVideoCall

SpecUnits == UnitInit /\ [][UnitNext]_vars

\* ------------------------------------------------------ the upload page
\* show_upload_page, lines 160-195: the trim button with what is typed in the
\* two fields; ran: whether ffmpeg.run succeeds
TrimVideoButton ==
    /\ Idle /\ current_step = "upload"
    /\ video_info # None /\ ~video_info.trimmed
    /\ \E start_time \in DisplayStrings, end_time \in DisplayStrings, ran \in BOOLEAN :
         IF validate_time_range(start_time, end_time) # Valid
           THEN UNCHANGED <<video_info, processing>>
           ELSE LET start_ms == IF start_time # <<>>
                                  THEN time_to_ms(start_time).value ELSE 0
                    end_ms == IF end_time # <<>>
                                THEN <<time_to_ms(end_time).value>> ELSE <<>>
                    call == trim_video(video_info.path, start_ms, end_ms, ran)
                IN  /\ processing' = FALSE
                    /\ IF "value" \in DOMAIN call.returns
                         THEN video_info' =
                                [video_info EXCEPT !.trimmed = TRUE,
                                                   !.trimmed_path = <<call.returns.value>>,
                                                   !.trim_start_ms = <<start_ms>>,
                                                   !.trim_end_ms = end_ms]
                         ELSE UNCHANGED video_info
    /\ UNCHANGED <<unit_vars, extract_vars, tts_vars, current_step, subtitles,
                   translated_subtitles, tts_audio_paths, result_videos,
                   audio_files, nvideos, nops, overwrites, observe, heap,
                   translate_vars>>

\* show_upload_page, lines 142-149
CancelTrim ==
    /\ Idle /\ current_step = "upload"
    /\ video_info # None /\ video_info.trimmed
    /\ video_info' = [video_info EXCEPT !.trimmed = FALSE,
                                        !.trim_start_ms = <<>>,
                                        !.trim_end_ms = <<>>,
                                        !.trimmed_path = <<>>]
    /\ UNCHANGED <<unit_vars, extract_vars, tts_vars, current_step, subtitles,
                   processing, translated_subtitles, tts_audio_paths,
                   result_videos, audio_files, nvideos, nops, overwrites,
                   observe, heap, translate_vars>>

\* the session on its upload page: uploads, trims and cancelled trims
UploadNext == UploadVideo \/ TrimVideoButton \/ CancelTrim

SpecUpload == Init /\ [][UploadNext]_vars

\* ------------------------------------------------- extract_subtitles
\* Python's None where the other values are strings
PyNone == "None"
AutoDetect == "auto"               \* the first entry of the language selectbox
WHISPER_TEMPERATURE == "0.0"

\* the widgets of the extract tab, app.py lines 362-404
UiSelections ==
    [language : {AutoDetect, "ko", "en"},
     model_size : {"base", "large-v3"},
     temperature : {"0.0", "0.5"},
     timestamp_granularity : {"segment", "word"},
     initial_prompt : {"", "hint"}]

\* app.py lines 377-378 and 414-421: the arguments of the call
CallArgs(ui) ==
    [language |-> IF ui.language = AutoDetect THEN PyNone ELSE ui.language,
     model_size |-> ui.model_size,
     temperature |-> ui.temperature,
     initial_prompt |-> IF ui.initial_prompt # "" THEN ui.initial_prompt ELSE PyNone,
     timestamp_granularity |-> ui.timestamp_granularity]

\* subtitle_handler.py lines 72-90: the payload dict
FormPayload(args) ==
    LET base == [video_path |-> "video", language |-> args.language]
        with_model == IF args.model_size # PyNone
                        THEN ("model_size" :> args.model_size) @@ base ELSE base
        with_temp == ("temperature" :> (IF args.temperature # PyNone
                                          THEN args.temperature ELSE WHISPER_TEMPERATURE))
                     @@ with_model
        with_prompt == IF args.initial_prompt # PyNone
                         THEN ("initial_prompt" :> args.initial_prompt) @@ with_temp
                         ELSE with_temp
    IN  IF args.timestamp_granularity # PyNone
          THEN ("timestamp_granularity" :> args.timestamp_granularity) @@ with_prompt
          ELSE with_prompt

\* requests.post(url, data=payload): the form body; a key whose value is None
\* is left out of the body
FormBody(payload) ==
    [k \in {f \in DOMAIN payload : payload[f] # PyNone} |-> payload[k]]

\* whisper/app.py lines 172-179: a field missing from the body takes the
\* default of its Form(...)
FormField(body, field, default) == IF field \in DOMAIN body THEN body[field] ELSE default

\* whisper/app.py lines 239-248: the options of model.transcribe
TranscribeOptions(body) ==
    [language |-> FormField(body, "language", "ko"),
     temperature |-> FormField(body, "temperature", WHISPER_TEMPERATURE),
     word_timestamps |-> FormField(body, "timestamp_granularity", "segment") = "word",
     initial_prompt |-> FormField(body, "initial_prompt", PyNone)]

\* the answers to a request
\*   unavailable  a status code other than 200
\*   notfound     whisper/app.py lines 203-210: status "error" before any transcription
\*   failed       lines 289-296: status "error", the transcription raised
\*   success      lines 282-287: status "success" and the subtitle path
\*   nopath       status "success" without a subtitle path (an answer the
\*                client provides for, lines 111-113)
Answers == {"unavailable", "notfound", "failed", "success", "nopath"}
ResponseOf(answer) ==
    [status_code |-> IF answer = "unavailable" THEN 503 ELSE 200,
     status |-> IF answer \in {"success", "nopath"} THEN "success" ELSE "error",
     subtitle_path |-> IF answer = "success" THEN "processed/subtitle.srt" ELSE PyNone]

ExtractInit ==
    /\ SessionInit
    /\ NoUnit
    /\ NoTts
    /\ observe = FALSE
    /\ heap = <<>>
    /\ pc = "idle"
    /\ api_key = FALSE
    /\ t_set = 0
    /\ target_language = "none"
    /\ chunk_i = 0
    /\ retry_count = 0
    /\ translated_segments = <<>>
    /\ log = <<>>
    /\ before = None
    /\ x_pc = "page"
    /\ x_ui \in UiSelections
    /\ x_args = None
    /\ x_requests = <<>>
    /\ x_transcribed = <<>>
    /\ x_response = None
    /\ x_result = None

\* app.py lines 408-421: the button calls extract_subtitles
ExtractButton ==
    /\ x_pc = "page"
    /\ x_args' = CallArgs(x_ui)
    /\ x_pc' = "call"
    /\ UNCHANGED <<session_vars, heap, translate_vars, unit_vars, tts_vars,
                   x_ui, x_requests, x_transcribed, x_response, x_result>>

\* subtitle_handler.py lines 72-94: the payload is built and posted
PostRequest ==
    /\ x_pc = "call"
    /\ x_requests' = Append(x_requests, FormBody(FormPayload(x_args)))
    /\ x_pc' = "sent"
    /\ UNCHANGED <<session_vars, heap, translate_vars, unit_vars, tts_vars,
                   x_ui, x_args, x_transcribed, x_response, x_result>>

\* subtitle_handler.py lines 94 and 121-123: requests.post itself raises (no
\* connection), the call ends in ValueError
PostRaises ==
    /\ x_pc = "call"
    /\ x_requests' = Append(x_requests, FormBody(FormPayload(x_args)))
    /\ x_result' = Raised("ValueError")
    /\ x_pc' = "raised"
    /\ UNCHANGED <<session_vars, heap, translate_vars, unit_vars, tts_vars,
                   x_ui, x_args, x_transcribed, x_response>>

\* whisper/app.py lines 171-296, or something else answering at the address
ServiceAnswers ==
    /\ x_pc = "sent"
    /\ \E answer \in Answers :
         /\ x_response' = ResponseOf(answer)
         /\ x_transcribed' =
              IF answer \in {"failed", "success"}
                THEN Append(x_transcribed, TranscribeOptions(x_requests[Len(x_requests)]))
                ELSE x_transcribed
    /\ x_pc' = "answered"
    /\ UNCHANGED <<session_vars, heap, translate_vars, unit_vars, tts_vars,
                   x_ui, x_args, x_requests, x_result>>

\* a client that posts again after a failed answer
HandleResponse_retrying ==
    /\ x_pc = "answered"
    /\ IF x_response.status_code # 200 \/ x_response.status # "success"
         THEN x_pc' = IF Len(x_requests) < 2 THEN "call" ELSE "raised"
         ELSE x_pc' = IF x_response.subtitle_path = PyNone THEN "raised" ELSE "returned"
    /\ x_result' =
         IF x_pc' = "call" THEN x_result
         ELSE IF x_pc' = "raised" THEN Raised("ValueError")
         ELSE Value(x_response.subtitle_path)
    /\ UNCHANGED <<session_vars, heap, translate_vars, unit_vars, tts_vars,
                   x_ui, x_args, x_requests, x_transcribed, x_response>>

\* subtitle_handler.py lines 96-123
HandleResponse ==
    /\ x_pc = "answered"
    /\ IF x_response.status_code # 200 THEN x_result' = Raised("ValueError")
       ELSE IF x_response.status # "success" THEN x_result' = Raised("ValueError")
       ELSE IF x_response.subtitle_path = PyNone THEN x_result' = Raised("ValueError")
       ELSE x_result' = Value(x_response.subtitle_path)
    /\ x_pc' = IF x_result' = Raised("ValueError") THEN "raised" ELSE "returned"
    /\ UNCHANGED <<session_vars, heap, translate_vars, unit_vars, tts_vars,
                   x_ui, x_args, x_requests, x_transcribed, x_response>>

ExtractNext ==
    \/ ExtractButton \/ PostRequest \/ PostRaises
    \/ ServiceAnswers \/ HandleResponse

SpecExtract == ExtractInit /\ [][ExtractNext]_vars

\* ------------------------------------------------- generate_tts_audio
\* the TTS object that the k-th construction of the process made
Engine(k) == [engine |-> k]

\* an entry of the roster file
Speaker(name, gender) == [name |-> name, gender |-> gender]
\* json.load of a file without languages, and the {} of lines 66 and 74
EmptyDict == [language \in {} |-> <<>>]
\* what may be at TTS_SPEAKERS_FILE: nothing, text that is not JSON, or a
\* roster, language -> list of entries
NoFile == [exists |-> FALSE, json |-> FALSE, speakers |-> EmptyDict]
BadFile == [exists |-> TRUE, json |-> FALSE, speakers |-> EmptyDict]
RosterFile(speakers) == [exists |-> TRUE, json |-> TRUE, speakers |-> speakers]
SpeakerFiles ==
    {NoFile, BadFile,
     RosterFile("en" :> <<Speaker("Ana", "female"), Speaker("Bob", "male")>>
                @@ "ja" :> <<Speaker("Ken", "male")>>),
     RosterFile("en" :> <<Speaker("Bob", "male"), Speaker("Eve", "female"),
                          Speaker("Ana", "female")>>),
     RosterFile("en" :> <<>>
                @@ "ja" :> <<Speaker("Yui", "female"), Speaker("Ken", "male"),
                             Speaker("Rio", "male")>>)}

\* load_tts_speakers, lines 54-74
load_tts_speakers ==
    IF speakers_file.exists /\ speakers_file.json
      THEN speakers_file.speakers
      ELSE EmptyDict

\* a choice of voice that takes the first entry whatever its gender
get_speaker_for_language_first(language, gender) ==
    LET speakers == load_tts_speakers
    IN  IF language \notin DOMAIN speakers THEN PyNone
        ELSE IF speakers[language] # <<>> THEN speakers[language][1].name
        ELSE PyNone

\* get_speaker_for_language, lines 77-108
get_speaker_for_language(language, gender) ==
    LET speakers == load_tts_speakers
    IN  IF language \notin DOMAIN speakers THEN PyNone
        ELSE LET entries == speakers[language]
                 hits == {k \in 1..Len(entries) : entries[k].gender = gender}
             IN  IF hits # {}
                   THEN entries[CHOOSE k \in hits : \A j \in hits : k <= j].name
                 ELSE IF entries # <<>> THEN entries[1].name
                 ELSE PyNone

\* a getter that builds the engine and never sets the flag
get_tts_instance_unflagged(built) ==
    IF built
      THEN [instance |-> Engine(engines + 1), initialized |-> FALSE,
            constructed |-> "ok", returns |-> Value(Engine(engines + 1))]
      ELSE [instance |-> _tts_instance, initialized |-> FALSE,
            constructed |-> "failed", returns |-> Raised("ValueError")]

\* get_tts_instance, lines 27-51; built: whether TTS(...) of line 43 succeeds
get_tts_instance(built) ==
    IF ~_is_initialized
      THEN IF built
             THEN [instance |-> Engine(engines + 1), initialized |-> TRUE,
                   constructed |-> "ok", returns |-> Value(Engine(engines + 1))]
             ELSE [instance |-> _tts_instance, initialized |-> FALSE,
                   constructed |-> "failed", returns |-> Raised("ValueError")]
      ELSE [instance |-> _tts_instance, initialized |-> TRUE,
            constructed |-> "no", returns |-> Value(_tts_instance)]

\* generate_tts_audio, lines 166-174
language_mapping(code) ==
    CASE code = "en" -> "en"
      [] code = "zh" -> "zh-cn"
      [] code = "ja" -> "ja"
      [] code = "de" -> "de"
      [] code = "id" -> "id"
      [] OTHER -> "en"

\* generate_tts_audio, lines 161-175
TtsKwargs(speaker, code) ==
    IF speaker # PyNone /\ speaker # ""
      THEN [speaker |-> speaker, language |-> language_mapping(code)]
      ELSE [language |-> language_mapping(code)]

\* the process starts with the module imported and some file, or none, at
\* TTS_SPEAKERS_FILE
TtsInit ==
    /\ SessionInit
    /\ NoUnit
    /\ NoExtract
    /\ observe = FALSE
    /\ heap = <<>>
    /\ pc = "idle"
    /\ api_key = FALSE
    /\ t_set = 0
    /\ target_language = "none"
    /\ chunk_i = 0
    /\ retry_count = 0
    /\ translated_segments = <<>>
    /\ log = <<>>
    /\ before = None
    /\ _tts_instance = None
    /\ _is_initialized = FALSE
    /\ speakers_file \in SpeakerFiles
    /\ engines = 0
    /\ tts_log = <<>>

\* generate_tts_audio, lines 134-190, one call from entry to return or raise;
\* spoken: whether tts_to_file of line 179 succeeds
GenerateTtsAudio ==
    /\ Len(tts_log) < MaxTtsCalls
    /\ \E language \in Langs, gender \in Genders, built \in BOOLEAN,
          spoken \in BOOLEAN :
         LET tts == get_tts_instance(built)
             got == tts.constructed # "failed"
             speaker == get_speaker_for_language(language, gender)
             output_path == TtsPath(1, language, gender)
         IN  /\ _tts_instance' = tts.instance
             /\ _is_initialized' = tts.initialized
             /\ engines' = IF tts.constructed = "ok" THEN engines + 1 ELSE engines
             /\ tts_log' = Append(tts_log,
                  [target_language |-> language,
                   gender |-> gender,
                   constructed |-> tts.constructed,
                   speaker |-> IF got THEN <<speaker>> ELSE <<>>,
                   tts_to_file |->
                     IF got
                       THEN <<[tts |-> tts.instance, file_path |-> output_path,
                               kwargs |-> TtsKwargs(speaker, language)]>>
                       ELSE <<>>,
                   result |-> IF got /\ spoken THEN Value(output_path)
                              ELSE Raised("ValueError")])
    /\ UNCHANGED <<session_vars, heap, translate_vars, unit_vars, extract_vars,
                   speakers_file>>

TtsNext == GenerateTtsAudio

SpecTts == TtsInit /\ [][TtsNext]_vars

\* =================================================================== claims
\* the upstream calls made for chunk c, and everything the run did for it
CallsOf(c) == SelectSeq(log, LAMBDA e : e.type = "call" /\ e.chunk = c)
EventsOf(c) == SelectSeq(log, LAMBDA e : e.chunk = c)
AllCalls == SelectSeq(log, LAMBDA e : e.type = "call")
ChunkNos == 0..MaxSegs
\* the positions of chunk c in a list of n segments, counted in tens
TenLo(c) == 10 * c + 1
TenHi(c, n) == Min(10 * c + 10, n)
\* the well-formed lines of a response that name the id
LinesFor(lines, id) == {k \in 1..Len(lines) : lines[k].kind = "ok" /\ lines[k].id = id}

FailedTwiceThenOk(c) ==
    /\ Len(CallsOf(c)) >= 3
    /\ CallsOf(c)[1].result = "apierror"
    /\ CallsOf(c)[2].result = "apierror"
    /\ CallsOf(c)[3].result = "ok"

FailedThrice(c) ==
    /\ Len(CallsOf(c)) >= 3
    /\ \A k \in 1..3 : CallsOf(c)[k].result = "apierror"

\* C1: a chunk whose first two attempts raise an API error and whose third
\* succeeds gets exactly 3 upstream calls, the run sleeps 2 s after the first
\* and 4 s after the second and nothing else in between, and every segment of
\* the chunk that the response names has translated_text set.
C1_RetryBackoff ==
    \A c \in ChunkNos :
        FailedTwiceThenOk(c) =>
            LET ev == EventsOf(c)
                lines == CallsOf(c)[3].lines
            IN  /\ Len(CallsOf(c)) = 3
                /\ Len(ev) >= 5
                /\ ev[1].type = "call"
                /\ ev[2].type = "sleep" /\ ev[2].secs = 2
                /\ ev[3].type = "call"
                /\ ev[4].type = "sleep" /\ ev[4].secs = 4
                /\ ev[5].type = "call"
                /\ \A p \in TenLo(c)..TenHi(c, Len(Segs)) :
                      LinesFor(lines, Segs[p].id) # {} => Segs[p].translated_text # NoText

C1_Witness ==
    /\ pc = "returned"
    /\ \E c \in ChunkNos :
         /\ FailedTwiceThenOk(c)
         /\ \E p \in TenLo(c)..TenHi(c, Len(Segs)) :
              /\ LinesFor(CallsOf(c)[3].lines, Segs[p].id) # {}
              /\ Segs[p].translated_text.lang = target_language

\* C2: three API errors in a row on one chunk end the call in an error after
\* exactly 3 upstream calls for the chunk: the third failed call is the last
\* thing the run does (no fourth call, no sleep after it, nothing for a later
\* chunk) and nothing is returned.
C2_RetryExhausted ==
    \A c \in ChunkNos :
        FailedThrice(c) =>
            /\ pc = "raised"
            /\ Len(CallsOf(c)) = 3
            /\ log[Len(log)].type = "call" /\ log[Len(log)].chunk = c
            /\ \A k \in 1..Len(log) : log[k].chunk <= c

C2_Witness ==
    /\ pc = "raised"
    /\ \E c \in ChunkNos : FailedThrice(c) /\ c > 0 /\ Len(Segs) > TenHi(c, Len(Segs))

\* C3: a run over n > 0 segments in which no upstream call fails makes exactly
\* ceil(n/10) calls, and call j carries the segments at positions
\* 10(j-1)+1 .. min(10j, n), in that order.
C3_Chunking ==
    (/\ pc = "returned"
     /\ Len(Segs) > 0
     /\ \A k \in 1..Len(AllCalls) : AllCalls[k].result = "ok")
    => /\ 10 * Len(AllCalls) >= Len(Segs)
       /\ 10 * (Len(AllCalls) - 1) < Len(Segs)
       /\ \A j \in 1..Len(AllCalls) :
             AllCalls[j].payload =
                [k \in 1..(TenHi(j - 1, Len(Segs)) - TenLo(j - 1) + 1) |->
                    <<Segs[10 * (j - 1) + k].id, Segs[10 * (j - 1) + k].text>>]

C3_Witness ==
    /\ pc = "returned"
    /\ Len(Segs) = 25
    /\ Len(AllCalls) = 3
    /\ \A k \in 1..3 : AllCalls[k].result = "ok"
    /\ Len(AllCalls[1].payload) = 10
    /\ Len(AllCalls[2].payload) = 10
    /\ Len(AllCalls[3].payload) = 5

\* C4: after a successful return, a segment whose id no well-formed line of
\* the response to its chunk names has translated_text unset, and a segment
\* that is named has the content of the last line naming it.
C4_UnmatchedStaysUnset ==
    pc = "returned" =>
        \A p \in 1..Len(Segs) :
            LET c == (p - 1) \div 10
                lines == CallsOf(c)[Len(CallsOf(c))].lines
                hits == LinesFor(lines, Segs[p].id)
            IN  IF hits = {}
                  THEN Segs[p].translated_text = NoText
                  ELSE \E k \in hits :
                         /\ \A h \in hits : h <= k
                         /\ Segs[p].translated_text = lines[k].content

\* the segment objects a translation record refers to, as they are in heap h
RecordSegments(rec, h) == [k \in 1..Len(rec.segments) |-> h[rec.set][rec.segments[k]]]

\* C5: the records of different target languages are independent: between
\* handlers, no segment stored in the record of language A carries a
\* translated_text that was produced for another language.
C5_RecordsIndependent ==
    Idle =>
        \A l \in DOMAIN translated_subtitles :
            LET segs == RecordSegments(translated_subtitles[l], heap)
            IN  \A k \in 1..Len(segs) : segs[k].translated_text.lang \in {l, "none"}

\* C6: two distinct keys of tts_audio_paths refer to distinct audio artifacts.
C6_AudioSlotsDistinct ==
    \A k1 \in DOMAIN tts_audio_paths, k2 \in DOMAIN tts_audio_paths :
        k1 # k2 => tts_audio_paths[k1] # tts_audio_paths[k2]

\* C7: a stage is never invoked for a key that already has an entry in its
\* cache; no handler of app.py takes an overwrite confirmation, so every such
\* invocation is one without confirmation.
C7_NoUnconfirmedOverwrite == overwrites = 0

\* C8: when a translate call has failed, the key set of translated_subtitles
\* and the segments of every existing record, with their translated_text, are
\* as they were when the button was pressed.
C8_FailedCallLeavesRecords ==
    (pc = "raised" /\ before # None) =>
        /\ DOMAIN translated_subtitles = DOMAIN before.translated_subtitles
        /\ \A l \in DOMAIN translated_subtitles :
              RecordSegments(translated_subtitles[l], heap)
                = RecordSegments(before.translated_subtitles[l], before.heap)

\* C9: no step removes a key from translated_subtitles, tts_audio_paths or
\* result_videos, except the reset on the result page, which empties the three
\* caches together with the video and the subtitle set and goes to the upload
\* step.
C9_NoEviction ==
    [][\/ /\ DOMAIN translated_subtitles \subseteq DOMAIN translated_subtitles'
          /\ DOMAIN tts_audio_paths \subseteq DOMAIN tts_audio_paths'
          /\ DOMAIN result_videos \subseteq DOMAIN result_videos'
       \/ /\ current_step = "result"
          /\ DOMAIN translated_subtitles' = {}
          /\ DOMAIN tts_audio_paths' = {}
          /\ DOMAIN result_videos' = {}
          /\ video_info' = None
          /\ subtitles' = None
          /\ current_step' = "upload"]_vars

\* the session after a reset, with the artifacts of the finished task on disk
C9_Witness ==
    /\ current_step = "upload"
    /\ video_info = None /\ subtitles = None
    /\ DOMAIN translated_subtitles = {}
    /\ DOMAIN tts_audio_paths = {}
    /\ DOMAIN result_videos = {}
    /\ DOMAIN audio_files # {}

\* C10: the step record gates the stages: past the upload step a video is
\* stored, past the extract step a subtitle set, past the translate step a
\* translation record, and on the result step an audio record.
C10_StepGates ==
    /\ current_step \in {"extract", "translate", "tts", "result"} => video_info # None
    /\ current_step \in {"translate", "tts", "result"} => subtitles # None
    /\ current_step \in {"tts", "result"} => DOMAIN translated_subtitles # {}
    /\ current_step = "result" => DOMAIN tts_audio_paths # {}

C10_Witness ==
    /\ current_step = "result"
    /\ video_info # None /\ subtitles # None
    /\ DOMAIN translated_subtitles # {}
    /\ DOMAIN tts_audio_paths # {}
    /\ DOMAIN result_videos # {}

\* C11: a call with an empty segment list returns the empty list and makes no
\* upstream call, with or without an API key.
C11_EmptyReturnsEmpty ==
    (Len(Segs) = 0 /\ pc # "start") =>
        /\ pc = "returned"
        /\ translated_segments = <<>>
        /\ AllCalls = <<>>

C11_Witness ==
    /\ Len(Segs) = 0
    /\ ~api_key
    /\ pc = "returned"

\* C12: a call that returns hands back exactly the segment objects it was
\* given, each once and in the given order, so the list has the length and the
\* id sequence of the input.
C12_ReturnsInputInOrder ==
    pc = "returned" =>
        /\ Len(translated_segments) = Len(Segs)
        /\ \A k \in 1..Len(translated_segments) : translated_segments[k] = k
        \* the ids are those the segments came with: stride, 2*stride, ...
        /\ \A k \in 1..Len(Segs) : Segs[k].id = k * Segs[1].id

\* a returned run over three chunks, one of which needed a second attempt
C12_Witness ==
    /\ pc = "returned"
    /\ Len(Segs) > 2 * chunk_size
    /\ Len(AllCalls) > NumChunks(Len(Segs))
    /\ Len(translated_segments) = Len(Segs)

\* C13: the final video composed for the selection (language L, gender G) of
\* the video with id I is at the path made of "result", I, L and G.
C13_ResultPathNamesGender ==
    \A key \in DOMAIN result_videos :
        LET path == result_videos[key]
        IN  /\ Len(path) = 4
            /\ path[1] = "result"
            /\ path[2] \in 1..nvideos
            /\ path[3] = key[1]
            /\ path[4] = key[2]

\* C14: for 0 <= ms <= 359999999, reading back the SRT time stamp written for
\* ms gives ms.
C14_SrtTimeRoundTrip ==
    (u_fn = "srt_time" /\ u_out # None /\ 0 <= u_in /\ u_in <= 359999999) =>
        u_out = Value(u_in)

C14_Witness ==
    /\ u_fn = "srt_time"
    /\ u_in = 359999999
    /\ u_out = Value(359999999)
    /\ u_text = <<"9", "9", ":", "5", "9", ":", "5", "9", ",", "9", "9", "9">>

\* C15: parsing the SRT file written for a non-empty segment list with unique
\* ascending ids and non-negative times gives the list back: same ids, times
\* and texts, in the same order.
C15_SrtFileRoundTrip ==
    (u_fn = "srt_file" /\ u_out # None) => u_out = Value(u_in)

\* C16: the parse of an SRT content in which some block has a malformed index
\* or time stamp ends in an error; no list is returned.
C16_SrtParseFailsFast ==
    (u_fn = "srt_upload" /\ u_out # None /\ \E k \in 1..Len(u_in) : u_in[k] # "good") =>
        u_out = Raised("ValueError")

\* how the lines of TxtLines read: whether the line splits into an integer
\* start, an integer end and a text, and what these are
TxtReading ==
    {[raw |-> <<"0", " ", "-", " ", "9", " ", "-", " ", "a">>, accepted |-> TRUE, start_ms |-> 0, end_ms |-> 9, text |-> <<"a">>],
     [raw |-> <<"5", " ", "-", " ", "7", " ", "-", " ", "a", " ", "-", " ", "b">>, accepted |-> TRUE, start_ms |-> 5, end_ms |-> 7, text |-> <<"a", " ", "-", " ", "b">>],
     [raw |-> <<"-", "2", " ", "-", " ", "4", " ", "-", " ", "a">>, accepted |-> TRUE, start_ms |-> 0 - 2, end_ms |-> 4, text |-> <<"a">>],
     [raw |-> <<"7", " ", "-", " ", "8", " ", "-", " ", "2", ".", " ", "b">>, accepted |-> TRUE, start_ms |-> 7, end_ms |-> 8, text |-> <<"2", ".", " ", "b">>],
     [raw |-> <<"x", " ", "-", " ", "9", " ", "-", " ", "a">>, accepted |-> FALSE, start_ms |-> 0, end_ms |-> 0, text |-> <<>>],
     [raw |-> <<"3", " ", "-", " ", "y", " ", "-", " ", "a">>, accepted |-> FALSE, start_ms |-> 0, end_ms |-> 0, text |-> <<>>],
     [raw |-> <<"3", " ", "-", " ", "4">>, accepted |-> FALSE, start_ms |-> 0, end_ms |-> 0, text |-> <<>>],
     [raw |-> <<"3", " ", "-", " ", "4", " ", "-", " ">>, accepted |-> FALSE, start_ms |-> 0, end_ms |-> 0, text |-> <<>>],
     [raw |-> <<>>, accepted |-> FALSE, start_ms |-> 0, end_ms |-> 0, text |-> <<>>],
     [raw |-> <<" ", " ">>, accepted |-> FALSE, start_ms |-> 0, end_ms |-> 0, text |-> <<>>]}
ReadingOf(raw) == CHOOSE r \in TxtReading : r.raw = raw
Accepted(lines) ==
    SelectSeq([k \in 1..Len(lines) |-> ReadingOf(lines[k])], LAMBDA r : r.accepted)

\* C17: parse_txt_file returns for every file: the lines that do not split
\* into start, end and text or whose start or end is no integer are skipped,
\* and the k accepted lines become the segments 1..k in file order, the text
\* being everything after the second " - ".
C17_TxtParseSkipsBadLines ==
    (u_fn = "txt_upload" /\ u_out # None) =>
        /\ \A k \in 1..Len(u_in) : \E r \in TxtReading : r.raw = u_in[k]
        /\ u_out = Value([k \in 1..Len(Accepted(u_in)) |->
                            FileSegment(k, Accepted(u_in)[k].start_ms,
                                        Accepted(u_in)[k].end_ms, Accepted(u_in)[k].text)])

\* an accepted line, a line with a bad end, and a line whose text has a " - "
C17_Witness ==
    /\ u_fn = "txt_upload"
    /\ u_in = <<<<"0", " ", "-", " ", "9", " ", "-", " ", "a">>, <<"3", " ", "-", " ", "y", " ", "-", " ", "a">>, <<"5", " ", "-", " ", "7", " ", "-", " ", "a", " ", "-", " ", "b">>>>
    /\ u_out # None
    /\ Len(u_out.value) = 2
    /\ u_out.value[2].id = 2
    /\ u_out.value[2].text = <<"a", " ", "-", " ", "b">>

\* how the strings of DisplayStrings read: blank, a time of so many seconds,
\* or neither; `two` tells the times whose seconds are written with two digits
DisplayReading ==
    {[raw |-> <<>>, is |-> "blank", secs |-> 0, two |-> FALSE],
     [raw |-> <<" ">>, is |-> "blank", secs |-> 0, two |-> FALSE],
     [raw |-> <<"0", ":", "0", "0">>, is |-> "time", secs |-> 0, two |-> TRUE],
     [raw |-> <<"0", ":", "5", "9">>, is |-> "time", secs |-> 59, two |-> TRUE],
     [raw |-> <<"1", ":", "0", "0">>, is |-> "time", secs |-> 60, two |-> TRUE],
     [raw |-> <<"0", "1", ":", "0", "0">>, is |-> "time", secs |-> 60, two |-> TRUE],
     [raw |-> <<"0", "5", ":", "0", "0">>, is |-> "time", secs |-> 300, two |-> TRUE],
     [raw |-> <<"1", ":", "5">>, is |-> "time", secs |-> 65, two |-> FALSE],
     [raw |-> <<"1", ":", "6", "0">>, is |-> "bad", secs |-> 0, two |-> FALSE],
     [raw |-> <<"a", "b", "c">>, is |-> "bad", secs |-> 0, two |-> FALSE],
     [raw |-> <<"1", ":", "0", "0", "5">>, is |-> "bad", secs |-> 0, two |-> FALSE],
     [raw |-> <<":", "3", "0">>, is |-> "bad", secs |-> 0, two |-> FALSE],
     [raw |-> <<" ", "2", ":", "0", "0", " ">>, is |-> "time", secs |-> 120, two |-> TRUE],
     [raw |-> <<"1", "0", "0", ":", "0", "0">>, is |-> "time", secs |-> 6000, two |-> TRUE]}
DisplayOf(raw) == CHOOSE r \in DisplayReading : r.raw = raw

\* the verdict the claim gives for a pair of strings, where Parses(r) tells
\* whether a non-blank string counts as a time
RangeVerdict(s, e, Parses(_)) ==
    IF s.is = "blank" /\ e.is = "blank" THEN Valid
    ELSE IF (s.is # "blank" /\ ~Parses(s)) \/ (e.is # "blank" /\ ~Parses(e))
      THEN Invalid("format")
    ELSE IF e.is # "blank" /\ (IF s.is = "blank" THEN 0 ELSE s.secs) >= e.secs
      THEN Invalid("ordering")
    ELSE Valid

TwoDigitSeconds(r) == r.is = "time" /\ r.two
OneOrTwoDigitSeconds(r) == r.is = "time"

C19_NoRetry ==
    /\ Len(x_requests) <= 1
    /\ x_pc \in {"returned", "raised"} => Len(x_requests) = 1
    /\ (/\ x_pc \in {"returned", "raised"}
        /\ x_response # None
        /\ \/ x_response.status_code # 200
           \/ x_response.status # "success"
           \/ x_response.subtitle_path = PyNone)
       => x_result = Raised("ValueError")

\* a call that ended in an error after a success answer without a path
C19_Witness ==
    /\ x_pc = "raised"
    /\ Len(x_requests) = 1
    /\ x_response # None
    /\ x_response.status_code = 200
    /\ x_response.status = "success"
    /\ x_response.subtitle_path = PyNone

\* C20: with automatic detection selected, the request carries no language
\* and the service transcribes with no language set (detection), not with a
\* fixed language.
C20_AutoDetectReachesService ==
    x_ui # None =>
        (x_ui.language = AutoDetect =>
            /\ \A k \in 1..Len(x_requests) : "language" \notin DOMAIN x_requests[k]
            /\ \A k \in 1..Len(x_transcribed) : x_transcribed[k].language = PyNone)

\* ---- C21
\* the calls of generate_tts_audio made so far
TtsCalls == 1..Len(tts_log)
\* the engines that tts_to_file was invoked on in call k
SynthesizedOn(k) == {tts_log[k].tts_to_file[i].tts : i \in 1..Len(tts_log[k].tts_to_file)}

\* C21: over the calls of generate_tts_audio of one process, no engine exists
\* before the first call, at most one call constructs an engine successfully,
\* every call after that one constructs nothing and synthesizes on that very
\* engine, and a call whose construction fails raises without any synthesis.
C21_LazySingleton ==
    /\ tts_log = <<>> => (engines = 0 /\ _tts_instance = None /\ ~_is_initialized)
    /\ engines <= 1
    /\ Cardinality({k \in TtsCalls : tts_log[k].constructed = "ok"}) = engines
    /\ \A j \in TtsCalls : tts_log[j].constructed = "ok" =>
         /\ SynthesizedOn(j) = {Engine(1)}
         /\ \A k \in TtsCalls : k > j =>
              /\ tts_log[k].constructed = "no"
              /\ SynthesizedOn(k) = SynthesizedOn(j)
    /\ \A k \in TtsCalls : tts_log[k].constructed = "failed" =>
         /\ tts_log[k].tts_to_file = <<>>
         /\ tts_log[k].result = Raised("ValueError")

\* a failed construction, then a successful one, then a call that reuses it
C21_Witness ==
    /\ Len(tts_log) = 3
    /\ tts_log[1].constructed = "failed"
    /\ tts_log[2].constructed = "ok"
    /\ tts_log[3].constructed = "no"
    /\ SynthesizedOn(3) = {Engine(1)}
    /\ tts_log[3].result # Raised("ValueError")

\* ---- C22
\* C22: trim_video with start_ms = 0 and end_ms = None returns the input path
\* and runs no backend command; with any other range it runs exactly one
\* backend command and what it returns is trimmed_<id><suffix> in the
\* processed directory, <id> being the last "_" part of the input's stem.
C22_TrimNoOp ==
    (u_fn = "trim" /\ u_out # None) =>
        IF u_in.start_ms = 0 /\ u_in.end_ms = <<>>
          THEN u_out = Value(u_in.video_path) /\ Len(u_text) = 0
          ELSE /\ Len(u_text) = 1
               /\ u_text[1].input = u_in.video_path
               /\ "value" \in DOMAIN u_out =>
                    /\ u_out.value.dir = "processed"
                    /\ u_out.value.stem =
                         <<"trimmed", u_in.video_path.stem[Len(u_in.video_path.stem)]>>
                    /\ u_out.value.suffix = u_in.video_path.suffix

\* the no-op on an uploaded file
C22_Witness ==
    /\ u_fn = "trim" /\ u_out # None
    /\ u_in.start_ms = 0 /\ u_in.end_ms = <<>>
    /\ u_in.video_path.stem = <<"original", 2>>
    /\ u_out = Value(u_in.video_path)
    /\ u_text = <<>>

\* ---- C23
\* C23: whenever the stored video is marked trimmed, trimmed_path is a path
\* other than the original path, the original path is still the uploaded
\* file's, and trim_start_ms < trim_end_ms when both are set.
C23_TrimmedIsDerived ==
    (video_info # None /\ video_info.trimmed) =>
        /\ video_info.trimmed_path # <<>>
        /\ video_info.trimmed_path # <<video_info.path>>
        /\ video_info.path = UploadPath(video_info.id, ".mp4")
        /\ (video_info.trim_start_ms # <<>> /\ video_info.trim_end_ms # <<>>) =>
             video_info.trim_start_ms[1] < video_info.trim_end_ms[1]

\* ---- C24
\* the roster as read from the file, when it can be read
RosterLoads == speakers_file.exists /\ speakers_file.json
\* the calls in which get_speaker_for_language was reached
SpeakerCalls == {k \in TtsCalls : tts_log[k].speaker # <<>>}

\* C24: the voice chosen for (language, gender) is the name of the first
\* roster entry of the language with that gender; with entries but none of
\* that gender, the name of the first entry; with the language absent or the
\* roster not loadable, no voice, and tts_to_file is still invoked, without a
\* speaker argument.
C24_SpeakerChoice ==
    \A k \in SpeakerCalls :
        LET call == tts_log[k]
            chosen == call.speaker[1]
            language == call.target_language
        IN  IF ~RosterLoads \/ language \notin DOMAIN speakers_file.speakers
              THEN /\ chosen = PyNone
                   /\ Len(call.tts_to_file) = 1
                   /\ "speaker" \notin DOMAIN call.tts_to_file[1].kwargs
              ELSE LET entries == speakers_file.speakers[language]
                   IN  /\ (\E i \in 1..Len(entries) : entries[i].gender = call.gender) =>
                            \E i \in 1..Len(entries) :
                                /\ entries[i].gender = call.gender
                                /\ \A j \in 1..(i - 1) : entries[j].gender # call.gender
                                /\ chosen = entries[i].name
                       /\ (/\ entries # <<>>
                           /\ \A i \in 1..Len(entries) : entries[i].gender # call.gender) =>
                            chosen = entries[1].name

\* a roster without "ja" whose first female "en" voice is its second entry:
\* one call picks that voice, another, for "ja", synthesizes without a voice
C24_Witness ==
    /\ RosterLoads
    /\ DOMAIN speakers_file.speakers = {"en"}
    /\ \E k \in SpeakerCalls :
         /\ tts_log[k].target_language = "en" /\ tts_log[k].gender = "female"
         /\ tts_log[k].speaker = <<"Eve">>
    /\ \E k \in SpeakerCalls :
         /\ tts_log[k].target_language = "ja"
         /\ tts_log[k].speaker = <<PyNone>>
         /\ tts_log[k].tts_to_file[1].kwargs = [language |-> "ja"]

\* ---- C25
\* the places in the log of the 1-second sleeps
PacingDelays == {e \in 1..Len(log) : log[e].type = "sleep" /\ log[e].secs = 1}

\* C25: a run over k >= 1 chunks that returns has exactly k - 1 sleeps of one
\* second: each comes right after the successful call of a chunk other than
\* the last and right before the first call of the next chunk, every chunk
\* but the last has one, and nothing follows the last chunk's successful call.
C25_PacingBetweenChunks ==
    (pc = "returned" /\ Len(Segs) > 0) =>
        LET k == (Len(Segs) + 9) \div 10
        IN  /\ Cardinality(PacingDelays) = k - 1
            /\ \A e \in PacingDelays :
                 /\ e > 1 /\ e < Len(log)
                 /\ log[e - 1].type = "call" /\ log[e - 1].result = "ok"
                 /\ log[e - 1].chunk < k - 1
                 /\ log[e + 1].type = "call"
                 /\ log[e + 1].chunk = log[e - 1].chunk + 1
                 /\ \A j \in 1..e : log[j].chunk <= log[e - 1].chunk
            /\ \A c \in 0..(k - 2) : \E e \in PacingDelays : log[e - 1].chunk = c
            /\ log[Len(log)].type = "call"
            /\ log[Len(log)].result = "ok"
            /\ log[Len(log)].chunk = k - 1

\* three chunks, the second of which needed a retry: two pacing sleeps
C25_Witness ==
    /\ pc = "returned"
    /\ Len(Segs) = 2 * chunk_size + 1
    /\ Len(CallsOf(1)) = 2
    /\ Cardinality(PacingDelays) = 2

\* ---- C26
\* the places in the log of the calls whose response has a line that is not
\* blank and not "<integer>. <content>"
MalformedCalls ==
    {e \in 1..Len(log) :
        /\ log[e].type = "call"
        /\ \E k \in 1..Len(log[e].lines) : log[e].lines[k].kind \in {"nosep", "nonint"}}

\* C26: a response with malformed lines is a successful attempt: it is the
\* last call for its chunk, what follows is the pacing sleep and the next
\* chunk (no backoff, no retry), and every segment of the chunk that a
\* well-formed line names, before or after the malformed ones, carries the
\* content of the last such line, so the malformed lines changed nothing.
C26_MalformedLinesIgnored ==
    \A e \in MalformedCalls :
        LET c == log[e].chunk
            lines == log[e].lines
        IN  /\ log[e].result = "ok"
            /\ \A j \in (e + 1)..Len(log) : log[j].type = "call" => log[j].chunk > c
            /\ e < Len(log) => log[e + 1].type = "sleep" /\ log[e + 1].secs = 1
            /\ \A p \in TenLo(c)..TenHi(c, Len(Segs)) :
                 LET hits == LinesFor(lines, Segs[p].id)
                 IN  hits # {} =>
                       \E k \in hits :
                           /\ \A h \in hits : h <= k
                           /\ Segs[p].translated_text = lines[k].content

\* a response whose last well-formed line comes after a malformed one and
\* names the chunk's first segment: that segment carries its content
C26_Witness ==
    /\ pc = "returned"
    /\ Len(Segs) > 2 * chunk_size
    /\ \E e \in MalformedCalls :
         /\ log[e].chunk = 1
         /\ \E k \in 3..Len(log[e].lines) :
              /\ log[e].lines[k - 2].kind = "nonint"
              /\ log[e].lines[k].kind = "ok"
              /\ log[e].lines[k].id = Segs[TenLo(1)].id
              /\ Segs[TenLo(1)].translated_text = log[e].lines[k].content
              /\ Segs[TenLo(1)].translated_text # Segs[TenLo(1) + 1].translated_text

\* ---- C27
\* the positions of the chunk under call
InChunk(p) == TenLo(chunk_i) <= p /\ p <= TenHi(chunk_i, Len(Segs))

\* C27: a step of the run changes translated_text only inside the chunk under
\* call, and only to the content of a well-formed line of that call's response
\* that names the segment's id; the segments of every other chunk stay as
\* they are, whatever ids the response names.
C27_LinesStayInChunk ==
    [][\A p \in 1..Len(Segs) :
          heap'[t_set][p].translated_text # Segs[p].translated_text =>
              /\ InChunk(p)
              /\ Len(log') > Len(log)
              /\ LET call == log'[Len(log) + 1]
                 IN  /\ call.type = "call" /\ call.chunk = chunk_i
                     /\ \E k \in LinesFor(call.lines, Segs[p].id) :
                          heap'[t_set][p].translated_text = call.lines[k].content]_vars

\* the response to chunk 0 named the id of the first segment of chunk 1 with
\* a content of its own, and that segment carries what its own chunk gave it
C27_Witness ==
    /\ pc = "returned"
    /\ Len(Segs) > chunk_size
    /\ \E k \in 1..Len(CallsOf(0)[Len(CallsOf(0))].lines) :
         LET line == CallsOf(0)[Len(CallsOf(0))].lines[k]
         IN  /\ line.kind = "ok"
             /\ line.id = Segs[TenLo(1)].id
             /\ Segs[TenLo(1)].translated_text # line.content
             /\ Segs[TenLo(1)].translated_text # NoText

\* ---- C28
\* C28: the attempts are counted per chunk: a chunk's first call is made with
\* the counter at zero, the counter is the number of failed calls of the chunk
\* under call, no chunk gets more than 3 calls, a run ends for exhausted
\* retries only when its last chunk itself had 3 failed calls, and a run over
\* n segments never makes more than 3 * ceil(n/10) calls.
C28_BudgetPerChunk ==
    /\ pc = "call" => retry_count = Len(CallsOf(chunk_i))
    /\ \A c \in ChunkNos : Len(CallsOf(c)) <= 3
    /\ (/\ pc = "raised"
        /\ log # <<>>
        /\ log[Len(log)].result = "apierror") =>
            /\ Len(CallsOf(log[Len(log)].chunk)) = 3
            /\ \A k \in 1..3 : CallsOf(log[Len(log)].chunk)[k].result = "apierror"
    /\ pc # "start" => Len(AllCalls) <= 3 * ((Len(Segs) + 9) \div 10)

\* two failures on chunk 0, then two failures on chunk 1 and a third,
\* successful attempt for it
C28_Witness ==
    /\ pc = "returned"
    /\ Len(Segs) > chunk_size
    /\ FailedTwiceThenOk(0)
    /\ FailedTwiceThenOk(1)

\* ---- C29
\* C29: an attempt that fails with an error other than an API error is the
\* last thing the run does: the call has ended in an error, with no sleep and
\* no upstream call after it.
C29_OnlyAPIErrorRetried ==
    \A e \in 1..Len(log) :
        (log[e].type = "call" /\ log[e].result = "nocontent") =>
            /\ e = Len(log)
            /\ pc = "raised"

\* a chunk whose first attempt raised an API error and was retried, and whose
\* second attempt got a response without content
C29_Witness ==
    /\ pc = "raised"
    /\ Len(log) >= 3
    /\ log[Len(log)].result = "nocontent"
    /\ log[Len(log) - 1].type = "sleep"
    /\ log[Len(log) - 2].result = "apierror"
    /\ log[Len(log) - 2].chunk = log[Len(log)].chunk

\* ---- C30
\* C30: whenever a video and a subtitle set are stored, the subtitle set's
\* file_id is the stored video's id, and the files of every translation,
\* audio and result record carry that id.
C30_RecordsOfStoredVideo ==
    (video_info # None /\ subtitles # None) =>
        /\ subtitles.file_id = video_info.id
        /\ \A lang \in DOMAIN translated_subtitles :
             translated_subtitles[lang].srt_path[2] = video_info.id
        /\ \A key \in DOMAIN tts_audio_paths :
             tts_audio_paths[key][2] = video_info.id
        /\ \A key \in DOMAIN result_videos :
             result_videos[key][2] = video_info.id


====
